---- MODULE Spec2Model ----
(***************************************************************************)
(* A state-machine model of Simporter (src/simporter.py): the pipeline     *)
(* that turns a SimaPro project into brightway2 records.                   *)
(*                                                                         *)
(* Python strings on which the code does string work (names of exchanges,  *)
(* of processes and of parameters) are sequences of one-character strings, *)
(* so that `in`, split, lower and the regular expressions are computed.    *)
(* A dictionary key that may be missing is a field with the value of an    *)
(* absent key (NoAllocation, NoLink, NoText), the same for every record,   *)
(* so that equality of records is equality of the Python dictionaries.     *)
(***************************************************************************)
EXTENDS Integers, Sequences, FiniteSets, TLC

VARIABLES
    data,                        \* self.sp.data: the list of processes
    global_parameters,           \* self.sp.global_parameters
    allocation_with_parameters,  \* self.allocation_with_parameters
    project_activities,          \* self.project_activities
    obsolete_processes,          \* self.obsolete_processes
    system_processes,            \* self.system_processes
    only_in_simapro,             \* self.only_in_simapro
    created_biosphere_flows,     \* self.created_biosphere_flows
    ecoinvent,                   \* the records of Database(self.ecoinvent_name)
    biosphere,                   \* the records of Database(self.biosphere_name)
    next_code,                   \* the number of uuid4 values drawn so far
    warnings,                    \* the "Warning: Issue with exchanges" lines printed
    pc,                          \* the stage of __init__ that runs next
    err,                         \* the exception that ended the run, or "none"
    parsed,                      \* the project as the run found it at its start
    written,                     \* the processes self.sp.write_database() has written
    database_parameters,         \* self.sp.database_parameters
    activity_parameters,         \* the lists handed to parameters.new_activity_parameters
    name_parts                     \* reference_product, name, location of the name parsed last

vars == <<data, global_parameters, allocation_with_parameters, project_activities,
          obsolete_processes, system_processes, only_in_simapro,
          created_biosphere_flows, ecoinvent, biosphere, next_code, warnings,
          pc, err, parsed, written, database_parameters, activity_parameters,
          name_parts>>

(***************************************************************************)
(* Bounds of the model.                                                    *)
(***************************************************************************)
\* processes in a project
MaxProcs == 2
\* exchanges in a project of the allocation resolver's specification
MaxAllocExchanges == 2
\* exchanges in a project of the decomposition's specification
MaxConformExchanges == 3
\* exchanges, besides the production exchanges, in a project of the
\* matchers' specification
MaxMatchExchanges == 2
\* exchanges in a project of the pruner's specification
MaxPruneExchanges == 4
\* biosphere exchanges in a project of the biosphere matcher's specification
MaxBioExchanges == 2
\* technosphere exchanges in a project of the reference matcher's specification
MaxEcoExchanges == 2
\* exchanges, the products apart, in a project of the whole run
MaxPipeExchanges == 2
\* exchanges, the products apart, in a project with processes of one name
MaxProjectExchanges == 2
\* exchanges in a project of three processes of the decomposition
MaxRemovalExchanges == 2

(***************************************************************************)
(* Python string operations, on sequences of characters.                   *)
(***************************************************************************)
\* sub in s
InStr(sub, s) ==
    \E k \in 0..(Len(s) - Len(sub)) : SubSeq(s, k + 1, k + Len(sub)) = sub

\* re.findall('^' + p, s) is not empty
StartsWith(p, s) == Len(p) <= Len(s) /\ SubSeq(s, 1, Len(p)) = p

\* re.findall(p + '$', s) is not empty (s holds no line break)
EndsWith(p, s) ==
    Len(p) <= Len(s) /\ SubSeq(s, Len(s) - Len(p) + 1, Len(s)) = p

\* c.lower() for one character
LowerChar(c) ==
    CASE c = "A" -> "a" [] c = "B" -> "b" [] c = "C" -> "c" [] c = "D" -> "d"
      [] c = "E" -> "e" [] c = "F" -> "f" [] c = "G" -> "g" [] c = "H" -> "h"
      [] c = "I" -> "i" [] c = "J" -> "j" [] c = "K" -> "k" [] c = "L" -> "l"
      [] c = "M" -> "m" [] c = "N" -> "n" [] c = "O" -> "o" [] c = "P" -> "p"
      [] c = "Q" -> "q" [] c = "R" -> "r" [] c = "S" -> "s" [] c = "T" -> "t"
      [] c = "U" -> "u" [] c = "V" -> "v" [] c = "W" -> "w" [] c = "X" -> "x"
      [] c = "Y" -> "y" [] c = "Z" -> "z" [] OTHER -> c

\* a string that keeps its capitals
Lower_Unchanged(s) == s

\* s.lower()
Lower(s) == [k \in 1..Len(s) |-> LowerChar(s[k])]

\* the least k >= from with sep at s[k..], or 0
RECURSIVE FindFrom(_, _, _)
FindFrom(sep, s, from) ==
    IF from + Len(sep) - 1 > Len(s) THEN 0
    ELSE IF SubSeq(s, from, from + Len(sep) - 1) = sep THEN from
    ELSE FindFrom(sep, s, from + 1)

\* s.split(sep), for a sep that is not empty
RECURSIVE Split(_, _)
Split(s, sep) ==
    LET k == FindFrom(sep, s, 1)
    IN  IF k = 0 THEN <<s>>
        ELSE <<SubSeq(s, 1, k - 1)>> \o Split(SubSeq(s, k + Len(sep), Len(s)), sep)

\* s.rstrip()
RECURSIVE RStrip(_)
RStrip(s) ==
    IF s # <<>> /\ s[Len(s)] = " " THEN RStrip(SubSeq(s, 1, Len(s) - 1)) ELSE s

(***************************************************************************)
(* Lists.                                                                  *)
(***************************************************************************)
\* list.remove(x): the first element equal to x leaves the list
RECURSIVE Remove(_, _)
Remove(l, x) ==
    IF l = <<>> THEN <<>>
    ELSE IF Head(l) = x THEN Tail(l)
    ELSE <<Head(l)>> \o Remove(Tail(l), x)

\* the sequences of length n over S
RECURSIVE SeqsOfLen(_, _)
SeqsOfLen(S, n) ==
    IF n = 0 THEN {<<>>}
    ELSE {<<x>> \o r : x \in S, r \in SeqsOfLen(S, n - 1)}

(***************************************************************************)
(* Records: exchanges, parameters, processes.                              *)
(***************************************************************************)
\* the value of exc['input'] / exc['output'] when the key is missing
NoLink == <<>>
\* the value of a missing 'unit' or 'formula' key
NoText == ""
\* a missing 'allocation' key, a numeric one, a textual one
NoAllocation == [kind |-> "absent", num |-> 0, str |-> <<>>]
NumAllocation(a) == [kind |-> "num", num |-> a, str |-> <<>>]
StrAllocation(s) == [kind |-> "str", num |-> 0, str |-> s]

Exchange(n, amt, ty, al, u) ==
    [name |-> n, amount |-> amt, type |-> ty, allocation |-> al, unit |-> u,
     formula |-> NoText, categories |-> <<>>, input |-> NoLink, output |-> NoLink,
     hasOriginalAmount |-> FALSE, original_amount |-> 0]

Parameter(n, amt) == [name |-> n, amount |-> amt]

\* a process as the importer delivers it: no 'name', 'reference product',
\* 'production amount' or 'unit' key unless hasName, no 'code'
Process(hasName, n, amt, hasParameters, params, excs) ==
    [hasName |-> hasName, name |-> n, reference_product |-> n,
     production_amount |-> amt, unit |-> NoText,
     hasParameters |-> hasParameters, parameters |-> params,
     exchanges |-> excs, code |-> 0]

IsProduction(exc) == exc.type = "production"
\* [j for j in p['exchanges'] if j['type'] == 'production']
Productions(p) == SelectSeq(p.exchanges, IsProduction)

\* key in d, for a dictionary of parameters
HasParameter(params, key) == \E k \in DOMAIN params : params[k].name = key
\* d[key]['amount']
ParameterAmount(params, key) ==
    params[CHOOSE k \in DOMAIN params : params[k].name = key].amount

(***************************************************************************)
(* dealing_with_allocation_defined_by_parameters                           *)
(***************************************************************************)
\* type(exc["allocation"]) == str
HasTextualAllocation(exc) == exc.allocation.kind = "str"

\* the indices of the processes that hold a textual allocation, ascending
RECURSIVE ScanTextualAllocations(_, _)
ScanTextualAllocations(d, i) ==
    IF i > Len(d) THEN <<>>
    ELSE (IF \E j \in DOMAIN d[i].exchanges : HasTextualAllocation(d[i].exchanges[j])
          THEN <<i>> ELSE <<>>) \o ScanTextualAllocations(d, i + 1)

\* a resolver that consults the project-global parameters before the
\* activity-level ones
ResolveAllocation_GlobalFirst(exc, proc, glob) ==
    LET key == Lower(exc.allocation.str)
    IN  IF ~HasTextualAllocation(exc) THEN [exc |-> exc, err |-> "none"]
        ELSE IF HasParameter(glob, key)
        THEN [exc |-> [exc EXCEPT !.allocation =
                          NumAllocation(ParameterAmount(glob, key))],
              err |-> "none"]
        ELSE IF proc.hasParameters /\ HasParameter(proc.parameters, key)
        THEN [exc |-> [exc EXCEPT !.allocation =
                          NumAllocation(ParameterAmount(proc.parameters, key))],
              err |-> "none"]
        ELSE [exc |-> exc, err |-> IF proc.hasParameters THEN "none" ELSE "ValueError"]

\* one exchange of a problematic process: the exchange afterwards and the
\* exception raised, if any
ResolveAllocation(exc, proc, glob) ==
    LET key == Lower(exc.allocation.str)
    IN  IF ~HasTextualAllocation(exc) THEN [exc |-> exc, err |-> "none"]
        ELSE IF proc.hasParameters
        THEN IF HasParameter(proc.parameters, key)
             THEN [exc |-> [exc EXCEPT !.allocation =
                               NumAllocation(ParameterAmount(proc.parameters, key))],
                   err |-> "none"]
             ELSE IF HasParameter(glob, key)
             THEN [exc |-> [exc EXCEPT !.allocation =
                               NumAllocation(ParameterAmount(glob, key))],
                   err |-> "none"]
             ELSE [exc |-> exc, err |-> "none"]
        \* KeyError: the process has no 'parameters' key
        ELSE IF HasParameter(glob, key)
             THEN [exc |-> [exc EXCEPT !.allocation =
                               NumAllocation(ParameterAmount(glob, key))],
                   err |-> "none"]
             ELSE [exc |-> exc, err |-> "ValueError"]

\* the exchanges of one problematic process, in list order, up to the first raise
RECURSIVE ResolveExchanges(_, _, _, _)
ResolveExchanges(excs, j, proc, glob) ==
    IF j > Len(excs) THEN [exchanges |-> excs, err |-> "none"]
    ELSE LET r == ResolveAllocation(excs[j], proc, glob)
         IN  IF r.err # "none" THEN [exchanges |-> excs, err |-> r.err]
             ELSE ResolveExchanges([excs EXCEPT ![j] = r.exc], j + 1, proc, glob)

\* the problematic processes, in the order of self.allocation_with_parameters
RECURSIVE ResolveProcesses(_, _, _, _)
ResolveProcesses(d, awp, k, glob) ==
    IF k > Len(awp) THEN [data |-> d, err |-> "none"]
    ELSE LET i == awp[k]
             r == ResolveExchanges(d[i].exchanges, 1, d[i], glob)
             d2 == [d EXCEPT ![i].exchanges = r.exchanges]
         IN  IF r.err # "none" THEN [data |-> d2, err |-> r.err]
             ELSE ResolveProcesses(d2, awp, k + 1, glob)

dealing_with_allocation_defined_by_parameters ==
    /\ pc = "allocation"
    /\ LET awp == ScanTextualAllocations(data, 1)
           r == ResolveProcesses(data, awp, 1, global_parameters)
       IN  /\ allocation_with_parameters' = awp
           /\ data' = r.data
           /\ IF r.err # "none"
              THEN pc' = "aborted" /\ err' = r.err
              \* assert len(allocation_with_parameters) == 0
              ELSE IF ScanTextualAllocations(r.data, 1) # <<>>
              THEN pc' = "aborted" /\ err' = "AssertionError"
              ELSE pc' = "conform" /\ err' = "none"
    /\ UNCHANGED <<global_parameters, project_activities, obsolete_processes,
                   system_processes, only_in_simapro, created_biosphere_flows,
                   ecoinvent, biosphere, next_code, warnings, parsed,
                   written, database_parameters, activity_parameters, name_parts>>

(***************************************************************************)
(* conform_data_to_brightway_format                                        *)
(*                                                                         *)
(* The parameters of a process are a list of (name, amount) entries both   *)
(* as the dictionary the importer delivers and as the list lines 701-720   *)
(* turn it into: that step leaves the model's parameters as they are.      *)
(* Amounts are integers and the Init of every specification draws the      *)
(* amounts of inputs among the multiples of 100, so that the product with  *)
(* (allocation / 100) is exact.                                            *)
(***************************************************************************)
\* for production_flow in prods: exchanges.remove(production_flow)
RECURSIVE RemoveAll(_, _)
RemoveAll(excs, prods) ==
    IF prods = <<>> THEN excs
    ELSE RemoveAll(Remove(excs, Head(prods)), Tail(prods))

\* the multioutput processes without their production exchanges
RECURSIVE RemoveOutputs(_, _, _)
RemoveOutputs(d, awp, k) ==
    IF k > Len(awp) THEN d
    ELSE RemoveOutputs(
             [d EXCEPT ![awp[k]].exchanges = RemoveAll(@, Productions(d[awp[k]]))],
             awp, k + 1)

\* an amount that does not apply the allocation
ScaledAmount_Unscaled(amount, allocation) == amount

\* input_data['amount'] *= (production_flow['allocation'] / 100)
ScaledAmount(amount, allocation) == (amount * allocation) \div 100

\* the copy of the emptied process made for one production flow; the
\* production exchange built for it is appended only inside the handler
\* of the misspelt exception (lines 754-759), that is never
NewActivity(emptied, production_flow) ==
    [emptied EXCEPT
        !.hasName = TRUE,
        !.name = production_flow.name,
        !.reference_product = production_flow.name,
        !.production_amount = production_flow.amount,
        !.exchanges = [j \in DOMAIN @ |->
            [@[j] EXCEPT !.amount = ScaledAmount(@, production_flow.allocation.num)]]]

\* the new activities of one multioutput process, appended to d in the order
\* of its production flows, up to the first raise
RECURSIVE SplitProcess(_, _, _, _)
SplitProcess(d, key, flows, f) ==
    IF f > Len(flows) THEN [data |-> d, err |-> "none"]
    \* production_flow['allocation']: no such key
    ELSE IF flows[f].allocation.kind # "num" THEN [data |-> d, err |-> "KeyError"]
    \* production_flow['unit'] raises KeyError and KeyyError is no name
    ELSE IF flows[f].unit = NoText THEN [data |-> d, err |-> "NameError"]
    ELSE SplitProcess(Append(d, NewActivity(d[key], flows[f])), key, flows, f + 1)

RECURSIVE SplitProcesses(_, _, _, _)
SplitProcesses(d, awp, products, k) ==
    IF k > Len(awp) THEN [data |-> d, err |-> "none"]
    ELSE LET r == SplitProcess(d, awp[k], products[k], 1)
         IN  IF r.err # "none" THEN r
             ELSE SplitProcesses(r.data, awp, products, k + 1)

\* self.sp.data.remove(self.sp.data[key - key_removed]) for every key
RECURSIVE RemoveOriginals(_, _, _)
RemoveOriginals(d, awp, k) ==
    IF k > Len(awp) THEN d
    ELSE RemoveOriginals(Remove(d, d[awp[k] - (k - 1)]), awp, k + 1)

\* one uuid4 value drawn before the loop and given to every process
AssignCodes_Once(d, first) == [i \in DOMAIN d |-> [d[i] EXCEPT !.code = first + 1]]

\* i['code'] = str(uuid.uuid4().hex): the i-th process gets the i-th value
\* drawn after the first ones
AssignCodes(d, first) == [i \in DOMAIN d |-> [d[i] EXCEPT !.code = first + i]]

\* lines 774-791 for one process: its metadata, and its production exchange
\* when it has none
ConformMetadata(p) ==
    LET production == Productions(p)
        named ==
            IF p.hasName THEN p
            ELSE [p EXCEPT !.hasName = TRUE,
                           !.name = production[1].name,
                           !.reference_product = production[1].name,
                           !.production_amount = production[1].amount,
                           !.unit = production[1].unit]
    IN  IF ~p.hasName /\ Len(production) # 1 THEN [process |-> p, err |-> "AssertionError"]
        ELSE IF ~p.hasName /\ production[1].unit = NoText
        THEN [process |-> p, err |-> "KeyError"]
        ELSE IF production = <<>>
        THEN [process |-> [named EXCEPT !.exchanges = Append(@,
                  Exchange(named.name, named.production_amount, "production",
                           NoAllocation, NoText))],
              err |-> "none"]
        ELSE [process |-> named, err |-> "none"]

RECURSIVE ConformAll(_, _)
ConformAll(d, i) ==
    IF i > Len(d) THEN [data |-> d, err |-> "none"]
    ELSE LET r == ConformMetadata(d[i])
         IN  IF r.err # "none" THEN [data |-> d, err |-> r.err]
             ELSE ConformAll([d EXCEPT ![i] = r.process], i + 1)

conform_data_to_brightway_format ==
    /\ pc = "conform"
    /\ LET awp == allocation_with_parameters
           products == [k \in DOMAIN awp |-> Productions(data[awp[k]])]
           emptied == RemoveOutputs(data, awp, 1)
           split == SplitProcesses(emptied, awp, products, 1)
           kept == RemoveOriginals(split.data, awp, 1)
           coded == AssignCodes(kept, next_code)
           conformed == ConformAll(coded, 1)
       IN  IF split.err # "none"
           THEN /\ data' = split.data
                /\ next_code' = next_code
                /\ pc' = "aborted"
                /\ err' = split.err
           ELSE /\ data' = conformed.data
                /\ next_code' = next_code + Len(kept)
                /\ pc' = IF conformed.err # "none" THEN "aborted" ELSE "basic_matching"
                /\ err' = conformed.err
    /\ UNCHANGED <<global_parameters, allocation_with_parameters, project_activities,
                   obsolete_processes, system_processes, only_in_simapro,
                   created_biosphere_flows, ecoinvent, biosphere, warnings, parsed,
                   written, database_parameters, activity_parameters, name_parts>>

(***************************************************************************)
(* The allocation resolver on its own: projects of up to MaxProcs          *)
(* processes holding up to MaxAllocExchanges exchanges in all.  A          *)
(* production exchange carries a literal percentage or the name of a       *)
(* parameter; the importer delivers parameter names in lower case.         *)
(***************************************************************************)
Name_alloc_a == <<"a","l","l","o","c","_","a">>
Name_Alloc_A == <<"A","l","l","o","c","_","A">>
Name_alloc_g == <<"a","l","l","o","c","_","g">>
Name_ghost == <<"g","h","o","s","t">>
Name_product == <<"p">>
Name_input == <<"t">>

\* the activity-level parameters of a process that declares some
ActivityParameters == <<Parameter(Name_alloc_a, 60)>>
\* the project-global parameters of a project that declares some
GlobalParameters == <<Parameter(Name_alloc_a, 70), Parameter(Name_alloc_g, 25)>>

\* the exchanges a process of this specification is made of
AllocExchanges ==
    <<Exchange(Name_product, 1, "production", NumAllocation(40), "kg"),
      Exchange(Name_product, 1, "production", StrAllocation(Name_alloc_a), "kg"),
      Exchange(Name_product, 1, "production", StrAllocation(Name_Alloc_A), "kg"),
      Exchange(Name_product, 1, "production", StrAllocation(Name_alloc_g), "kg"),
      Exchange(Name_product, 1, "production", StrAllocation(Name_ghost), "kg"),
      Exchange(Name_input, 100, "technosphere", NoAllocation, "kg")>>

\* A project is drawn as a list of shapes, one per process: the places in the
\* list of exchanges of each of its exchanges, and a variant of the process.
\* The shapes of the processes with n exchanges:
Shapes(nExchanges, variants) ==
    [n \in Nat |-> {[variant |-> v, exchanges |-> x] :
                        v \in variants, x \in SeqsOfLen(1..nExchanges, n)}]

\* the lists of m shapes with at most t exchanges in all
RECURSIVE Projects(_, _, _)
Projects(shapes, m, t) ==
    IF m = 0 THEN {<<>>}
    ELSE UNION {{<<p>> \o rest : p \in shapes[n],
                                 rest \in Projects(shapes, m - 1, t - n)} :
                n \in 0..t}

\* variant 1 of a process declares activity-level parameters, variant 2 has
\* no 'parameters' key
AllocProcess(shape) ==
    Process(FALSE, <<>>, 0, shape.variant = 1,
            IF shape.variant = 1 THEN ActivityParameters ELSE <<>>,
            [j \in DOMAIN shape.exchanges |-> AllocExchanges[shape.exchanges[j]]])

\* what every specification starts from, but the project and the stage
InitRest ==
    /\ allocation_with_parameters = <<>>
    /\ project_activities = <<>>
    /\ obsolete_processes = <<>>
    /\ system_processes = <<>>
    /\ only_in_simapro = <<>>
    /\ created_biosphere_flows = <<>>
    /\ next_code = 0
    /\ warnings = <<>>
    /\ written = <<>>
    /\ database_parameters = <<>>
    /\ activity_parameters = <<>>
    /\ name_parts = <<>>
    /\ err = "none"
    /\ parsed = data

InitAlloc ==
    /\ \E m \in 1..MaxProcs :
           \E shapes \in Projects(Shapes(Len(AllocExchanges), {1, 2}), m,
                                  MaxAllocExchanges) :
               data = [i \in 1..m |-> AllocProcess(shapes[i])]
    /\ global_parameters \in {<<>>, GlobalParameters}
    /\ ecoinvent = <<>>
    /\ biosphere = <<>>
    /\ pc = "allocation"
    /\ InitRest

NextAlloc == dealing_with_allocation_defined_by_parameters

SpecAlloc == InitAlloc /\ [][NextAlloc]_vars

\* the textual allocation the importer delivered for exchange j of process i
\* names parameter k of that process
NamesActivityParameter(i, j, k) ==
    /\ HasTextualAllocation(parsed[i].exchanges[j])
    /\ parsed[i].hasParameters
    /\ k \in DOMAIN parsed[i].parameters
    /\ parsed[i].parameters[k].name = parsed[i].exchanges[j].allocation.str

\* C5: whenever the resolver returns normally no exchange holds a textual
\* allocation, and an allocation that named an activity parameter holds that
\* parameter's amount ("alloc_a" with amount 60 gives 60).
C5_AllocationsNumeric ==
    pc = "conform" =>
        \A i \in DOMAIN data : \A j \in DOMAIN data[i].exchanges :
            /\ ~HasTextualAllocation(data[i].exchanges[j])
            /\ \A k \in DOMAIN parsed[i].parameters :
                   NamesActivityParameter(i, j, k) =>
                       data[i].exchanges[j].allocation =
                           NumAllocation(parsed[i].parameters[k].amount)
            /\ (parsed[i].hasParameters
                /\ parsed[i].exchanges[j].allocation = StrAllocation(Name_alloc_a))
                   => data[i].exchanges[j].allocation = NumAllocation(60)

C5_Witness ==
    /\ pc = "conform"
    /\ \E i \in DOMAIN data : \E j \in DOMAIN data[i].exchanges :
           /\ NamesActivityParameter(i, j, 1)
           /\ data[i].exchanges[j].allocation = NumAllocation(60)

\* the textual allocation the importer delivered for exchange j of process i
\* is defined in neither parameter scope
Unresolvable(i, j) ==
    /\ HasTextualAllocation(parsed[i].exchanges[j])
    /\ ~(parsed[i].hasParameters
         /\ HasParameter(parsed[i].parameters,
                         Lower(parsed[i].exchanges[j].allocation.str)))
    /\ ~HasParameter(global_parameters, Lower(parsed[i].exchanges[j].allocation.str))

\* C6: a textual allocation defined in neither parameter scope ends the
\* resolver with the ValueError, whether or not the process declares
\* activity-level parameters.
C6_UnresolvableRaisesValueError ==
    pc # "allocation" =>
        \A i \in DOMAIN parsed : \A j \in DOMAIN parsed[i].exchanges :
            Unresolvable(i, j) => pc = "aborted" /\ err = "ValueError"

(***************************************************************************)
(* The decomposition: the resolver, then conform_data_to_brightway_format, *)
(* on projects of up to MaxProcs processes holding up to                   *)
(* MaxConformExchanges exchanges in all.  Product names are unique in a    *)
(* project; either every process carries a 'name' or none does.            *)
(***************************************************************************)
Digit(k) ==
    CASE k = 1 -> "1" [] k = 2 -> "2" [] k = 3 -> "3" [] k = 4 -> "4" [] k = 5 -> "5"
      [] k = 6 -> "6" [] k = 7 -> "7" [] k = 8 -> "8" [] OTHER -> "9"

\* the name of the product that is exchange j of process i
ProductName(i, j) == <<"p", Digit(i), Digit(j)>>

Name_n1 == <<"n","1">>
Name_n2 == <<"n","2">>

ConformExchanges ==
    <<Exchange(Name_product, 1, "production", NumAllocation(40), "kg"),
      Exchange(Name_product, 1, "production", StrAllocation(Name_alloc_a), "kg"),
      Exchange(Name_input, 100, "technosphere", NoAllocation, "kg"),
      [Exchange(Name_input, 200, "biosphere", NoAllocation, "kg")
          EXCEPT !.categories = <<"Resources", "">>]>>

\* the names of the processes of a project whose processes carry a 'name'
ConformNames == <<Name_n1, Name_n2>>

\* variant 0 of a process has no 'name'; variant v > 0 is named ConformNames[v]
ConformProcess(shape) ==
    Process(shape.variant > 0,
            IF shape.variant > 0 THEN ConformNames[shape.variant] ELSE <<>>,
            IF shape.variant > 0 THEN 1 ELSE 0,
            TRUE, ActivityParameters,
            [j \in DOMAIN shape.exchanges |-> ConformExchanges[shape.exchanges[j]]])

\* the project with its products named after their places
WithProductNames(d) ==
    [i \in DOMAIN d |-> [d[i] EXCEPT !.exchanges = [j \in DOMAIN @ |->
        IF IsProduction(@[j]) THEN [@[j] EXCEPT !.name = ProductName(i, j)] ELSE @[j]]]]

InitConform ==
    /\ \E m \in 1..MaxProcs : \E variants \in {{0}, DOMAIN ConformNames} :
           \E shapes \in Projects(Shapes(Len(ConformExchanges), variants), m,
                                  MaxConformExchanges) :
               data = WithProductNames([i \in 1..m |-> ConformProcess(shapes[i])])
    /\ global_parameters = GlobalParameters
    /\ ecoinvent = <<>>
    /\ biosphere = <<>>
    /\ pc = "allocation"
    /\ InitRest

NextConform ==
    \/ dealing_with_allocation_defined_by_parameters
    \/ conform_data_to_brightway_format

SpecConform == InitConform /\ [][NextConform]_vars

\* conform_data_to_brightway_format has returned
Conformed == pc = "basic_matching"

\* the processes of the active set named n
ProcessesNamed(n) == {k \in DOMAIN data : data[k].hasName /\ data[k].name = n}

\* C1: every process that has K >= 2 production exchanges when the
\* decomposition runs, its allocations literal or from parameters, is
\* replaced by K processes, one per production output (which bears the
\* output's name), each with exactly one production exchange.
C1_MultiOutputDecomposed ==
    Conformed =>
        \A i \in DOMAIN parsed :
            Len(Productions(parsed[i])) >= 2 =>
                \A f \in DOMAIN Productions(parsed[i]) :
                    /\ Cardinality(ProcessesNamed(Productions(parsed[i])[f].name)) = 1
                    /\ \A k \in ProcessesNamed(Productions(parsed[i])[f].name) :
                           Len(Productions(data[k])) = 1

\* C2: after conform_data_to_brightway_format returns, every process of the
\* active set has exactly one production exchange.
C2_OneProductionEach ==
    Conformed => \A k \in DOMAIN data : Len(Productions(data[k])) = 1

\* process i of the delivered project is one the decomposition splits
WasSplit(i) ==
    \E j \in DOMAIN parsed[i].exchanges : HasTextualAllocation(parsed[i].exchanges[j])

\* the percentage the resolver leaves in production flow fl of process i
ResolvedAllocation(i, fl) ==
    IF fl.allocation.kind = "num" THEN fl.allocation.num
    ELSE IF HasParameter(parsed[i].parameters, Lower(fl.allocation.str))
    THEN ParameterAmount(parsed[i].parameters, Lower(fl.allocation.str))
    ELSE ParameterAmount(global_parameters, Lower(fl.allocation.str))

IsInput(exc) == exc.type # "production"
\* the non-production exchanges of a process, in list order
Inputs(p) == SelectSeq(p.exchanges, IsInput)

\* C3: in the process created for a production output with allocation a,
\* the non-production exchanges are those of the original, in order, each
\* with the original's amount times a / 100, whatever its siblings were
\* scaled by.
C3_InputsScaledByAllocation ==
    Conformed =>
        \A i \in DOMAIN parsed : WasSplit(i) =>
            \A f \in DOMAIN Productions(parsed[i]) :
                \A k \in ProcessesNamed(Productions(parsed[i])[f].name) :
                    /\ Len(Inputs(data[k])) = Len(Inputs(parsed[i]))
                    /\ \A j \in DOMAIN Inputs(parsed[i]) :
                           /\ 100 * Inputs(data[k])[j].amount =
                                  Inputs(parsed[i])[j].amount
                                      * ResolvedAllocation(i, Productions(parsed[i])[f])
                           /\ Inputs(data[k])[j].name = Inputs(parsed[i])[j].name
                           /\ Inputs(data[k])[j].type = Inputs(parsed[i])[j].type

\* two siblings, for allocations 40 and 60, of an original with an input of 100
C3_Witness ==
    /\ Conformed
    /\ \E i \in DOMAIN parsed : \E k, l \in DOMAIN data :
           /\ WasSplit(i)
           /\ Len(Productions(parsed[i])) = 2
           /\ data[k].name = Productions(parsed[i])[1].name
           /\ data[l].name = Productions(parsed[i])[2].name
           /\ Inputs(parsed[i]) # <<>>
           /\ Inputs(parsed[i])[1].amount = 100
           /\ Inputs(data[k])[1].amount = 40
           /\ Inputs(data[l])[1].amount = 60

\* C4: after the decomposition every process of the active set carries a
\* code and the codes are pairwise distinct, split siblings included; no
\* process has a code while the splitting has not run.
C4_CodesUniqueAfterSplit ==
    /\ Conformed =>
           /\ \A k \in DOMAIN data : data[k].code # 0
           /\ \A k, l \in DOMAIN data : k # l => data[k].code # data[l].code
    /\ pc \in {"allocation", "conform"} =>
           \A k \in DOMAIN data : data[k].code = 0

\* two siblings of one split original, and their codes
C4_Witness ==
    /\ Conformed
    /\ \E i \in DOMAIN parsed : \E k, l \in DOMAIN data :
           /\ WasSplit(i)
           /\ Len(Productions(parsed[i])) = 2
           /\ data[k].name = Productions(parsed[i])[1].name
           /\ data[l].name = Productions(parsed[i])[2].name
           /\ data[k].code # 0
           /\ data[l].code # 0

(***************************************************************************)
(* matching_to_ecoinvent                                                   *)
(*                                                                         *)
(* A link (exc['input'], exc['output']) is a pair <<database, code>>.  The *)
(* reference database is a list of activities; what its search index       *)
(* returns for a query belongs to the database, not to the importer: the   *)
(* activities marked indexed are the ones a search finds.                  *)
(***************************************************************************)
\* 'production'
Str_production ==
    <<"p", "r", "o", "d", "u", "c", "t", "i", "o", "n">>
\* '| '
Str_bar_ ==
    <<"|", " ">>
\* ' {'
Str__lbrace ==
    <<" ", "{">>
\* '}'
Str_rbrace ==
    <<"}">>
\* 'WECC, US only'
Str_WECCcomma_US_only ==
    <<"W", "E", "C", "C", ",", " ", "U", "S", " ", "o", "n", "l", "y">>
\* 'WECC'
Str_WECC ==
    <<"W", "E", "C", "C">>
\* 'market for'
Str_market_for ==
    <<"m", "a", "r", "k", "e", "t", " ", "f", "o", "r">>
\* 'market group for'
Str_market_group_for ==
    <<"m", "a", "r", "k", "e", "t", " ", "g", "r", "o", "u", "p", " ", "f",
      "o", "r">>
\* 'treatment of'
Str_treatment_of ==
    <<"t", "r", "e", "a", "t", "m", "e", "n", "t", " ", "o", "f">>
\* ' to generic market for'
Str__to_generic_market_for ==
    <<" ", "t", "o", " ", "g", "e", "n", "e", "r", "i", "c", " ", "m", "a",
      "r", "k", "e", "t", " ", "f", "o", "r">>
\* 'treatment of,'
Str_treatment_ofcomma ==
    <<"t", "r", "e", "a", "t", "m", "e", "n", "t", " ", "o", "f", ",">>
\* 'diesel'
Str_diesel ==
    <<"d", "i", "e", "s", "e", "l">>
\* 'ransport'
Str_ransport ==
    <<"r", "a", "n", "s", "p", "o", "r", "t">>
\* 'construction'
Str_construction ==
    <<"c", "o", "n", "s", "t", "r", "u", "c", "t", "i", "o", "n">>
\* 'quarry operation'
Str_quarry_operation ==
    <<"q", "u", "a", "r", "r", "y", " ", "o", "p", "e", "r", "a", "t", "i",
      "o", "n">>
\* 'processing'
Str_processing ==
    <<"p", "r", "o", "c", "e", "s", "s", "i", "n", "g">>
\* 'gravel and quarry operation'
Str_gravel_and_quarry_operation ==
    <<"g", "r", "a", "v", "e", "l", " ", "a", "n", "d", " ", "q", "u", "a",
      "r", "r", "y", " ", "o", "p", "e", "r", "a", "t", "i", "o", "n">>
\* 'gravel and sand quarry operation'
Str_gravel_and_sand_quarry_operation ==
    <<"g", "r", "a", "v", "e", "l", " ", "a", "n", "d", " ", "s", "a", "n",
      "d", " ", "q", "u", "a", "r", "r", "y", " ", "o", "p", "e", "r", "a",
      "t", "i", "o", "n">>
\* ' in '
Str__in_ ==
    <<" ", "i", "n", " ">>
\* ' as '
Str__as_ ==
    <<" ", "a", "s", " ">>
\* ' or '
Str__or_ ==
    <<" ", "o", "r", " ">>
\* ' from '
Str__from_ ==
    <<" ", "f", "r", "o", "m", " ">>
\* 'Diesel, burned in diesel-electric generating set'
Str_Dieselcomma_burned_in_dieseldashelectric_generating_set ==
    <<"D", "i", "e", "s", "e", "l", ",", " ", "b", "u", "r", "n", "e", "d",
      " ", "i", "n", " ", "d", "i", "e", "s", "e", "l", "-", "e", "l", "e",
      "c", "t", "r", "i", "c", " ", "g", "e", "n", "e", "r", "a", "t", "i",
      "n", "g", " ", "s", "e", "t">>
\* 'Sulfidic tailing, off-site'
Str_Sulfidic_tailingcomma_offdashsite ==
    <<"S", "u", "l", "f", "i", "d", "i", "c", " ", "t", "a", "i", "l", "i",
      "n", "g", ",", " ", "o", "f", "f", "-", "s", "i", "t", "e">>
\* 'recycling of'
Str_recycling_of ==
    <<"r", "e", "c", "y", "c", "l", "i", "n", "g", " ", "o", "f">>
\* 'Cut-off, S'
Str_Cutdashoffcomma_S ==
    <<"C", "u", "t", "-", "o", "f", "f", ",", " ", "S">>

\* the names the constructor is given for the reference databases and for
\* the database of the project
ecoinvent_name == "ecoinvent"
biosphere_name == "biosphere"
db_name == "project"

Activity(n, rp, loc, c, idx) ==
    [name |-> n, reference_product |-> rp, location |-> loc, code |-> c,
     indexed |-> idx]

\* ''.join(parts)
RECURSIVE Join(_)
Join(parts) == IF parts = <<>> THEN <<>> ELSE Head(parts) \o Join(Tail(parts))

NotSpace(c) == c # " "
\* s.replace(' ', '')
NoSpaces(s) == SelectSeq(s, NotSpace)

\* ''.join(s.split('production')).lower().replace(' ', '')
WithoutProduction(s) == NoSpaces(Lower(Join(Split(s, Str_production))))

\* x in l, for a list l
InList(x, l) == \E k \in DOMAIN l : l[k] = x

\* the three splits of lines 200-203 raise IndexError unless the name holds
\* '| ' and the part before it holds ' {'
ParseOk(n) ==
    /\ Len(Split(n, Str_bar_)) >= 2
    /\ Len(Split(Split(n, Str_bar_)[1], Str__lbrace)) >= 2

\* name.split('| ')[0].split(' {')[0]
ReferenceProduct(n) == Split(Split(n, Str_bar_)[1], Str__lbrace)[1]

\* name.split('| ')[1].rstrip()
ProcessName(n) == RStrip(Split(n, Str_bar_)[2])

\* a location that is read as it is written
Location_NoAlias(n) == Split(Split(Split(n, Str_bar_)[1], Str__lbrace)[2], Str_rbrace)[1]

\* name.split('| ')[0].split(' {')[1].split('}')[0], 'WECC, US only' read as 'WECC'
Location(n) ==
    LET location == Split(Split(Split(n, Str_bar_)[1], Str__lbrace)[2], Str_rbrace)[1]
    IN  IF location = Str_WECCcomma_US_only THEN Str_WECC ELSE location

\* Database(self.ecoinvent_name).search(reference_product, filter={'location': location})
Search(db, reference_product, location) ==
    SelectSeq(db, LAMBDA act : act.indexed /\ act.location = location)

\* str(act).split("'")[1].split("' ")[0]: the name up to its first apostrophe
NameOfStr(act) == Split(act.name, <<"'">>)[1]

\* an empty result that is passed over in silence
First_Skipped(hits) ==
    IF hits = <<>> THEN [kind |-> "print", code |-> 0]
    ELSE [kind |-> "code", code |-> hits[1].code]

\* [...][0].get('code'), IndexError on an empty list
First(hits) ==
    IF hits = <<>> THEN [kind |-> "IndexError", code |-> 0]
    ELSE [kind |-> "code", code |-> hits[1].code]

\* the filtered search for an activity of that name
SearchByName(db, reference_product, location, name) ==
    SelectSeq(Search(db, reference_product, location),
              LAMBDA act : Lower(NameOfStr(act)) = Lower(name))

\* the scan of the whole database on name, reference product and location
ScanByName(db, reference_product, location, name) ==
    SelectSeq(db, LAMBDA act :
                      /\ Lower(act.name) = Lower(name)
                      /\ Lower(act.reference_product) = Lower(reference_product)
                      /\ act.location = location)

\* two lookups whose failure is printed and passed over
SearchThenScan_Printing(db, reference_product, location, name) ==
    IF SearchByName(db, reference_product, location, name) # <<>>
    THEN First(SearchByName(db, reference_product, location, name))
    ELSE IF ScanByName(db, reference_product, location, name) # <<>>
    THEN First(ScanByName(db, reference_product, location, name))
    ELSE [kind |-> "print", code |-> 0]

\* try: the filtered search; except IndexError: the scan
SearchThenScan(db, reference_product, location, name) ==
    IF SearchByName(db, reference_product, location, name) # <<>>
    THEN First(SearchByName(db, reference_product, location, name))
    ELSE First(ScanByName(db, reference_product, location, name))

\* the branch of 'production' == name (lines 359-386)
ProductionCode(db, reference_product, location, name) ==
    IF Len(Split(reference_product, Str_production)) = 1
    THEN LET found == SelectSeq(Search(db, reference_product, location),
                          LAMBDA act : WithoutProduction(act.name) =
                                           NoSpaces(Lower(reference_product)))
         IN  IF found # <<>> THEN First(found)
             ELSE First(SelectSeq(db, LAMBDA act :
                      /\ NoSpaces(Lower(reference_product)) = WithoutProduction(act.name)
                      /\ InStr(Lower(name), Lower(act.name))
                      /\ act.location = location))
    ELSE First(SelectSeq(db, LAMBDA act :
                  /\ Lower(act.reference_product) = Lower(reference_product)
                  /\ act.location = location
                  /\ WithoutProduction(act.name) = WithoutProduction(reference_product)))

\* the cascade of lines 228-423 for a parsed name: the code found, the
\* IndexError of an empty result, or the print of the last else
EcoinventCode(db, reference_product, location, name) ==
    IF \/ name \in {Str_market_for, Str_market_group_for, Str_treatment_of}
       \/ EndsWith(Str__to_generic_market_for, name)
    THEN SearchThenScan(db, reference_product, location,
                        name \o <<" ">> \o reference_product)
    ELSE IF InStr(Str_treatment_ofcomma, name)
    THEN SearchThenScan(db, reference_product, location,
                        Split(name, <<",">>)[1] \o <<" ">> \o reference_product
                            \o <<",">> \o Split(name, <<",">>)[2])
    ELSE IF name = Str_diesel /\ InStr(Str_ransport, reference_product)
    THEN SearchThenScan(db, reference_product, location,
                        reference_product \o <<",", " ">> \o name)
    ELSE IF name = Str_construction
    THEN First(SelectSeq(Search(db, reference_product, location),
                         LAMBDA act : InStr(name, act.name)))
    ELSE IF name = Str_quarry_operation
    THEN SearchThenScan(db, reference_product, location,
                        reference_product \o <<" ">> \o name)
    ELSE IF name = Str_processing
    THEN First(ScanByName(db, reference_product, location, reference_product))
    ELSE IF name = Str_gravel_and_quarry_operation
    THEN First(SelectSeq(Search(db, reference_product, location),
                         LAMBDA act :
                             /\ Lower(NameOfStr(act)) = Str_gravel_and_sand_quarry_operation
                             /\ act.reference_product = Lower(reference_product)))
    ELSE IF \/ InStr(Str__in_, name) \/ InStr(Str__as_, name)
            \/ InStr(Str__or_, reference_product)
            \/ InStr(Str__from_, reference_product)
    THEN First(ScanByName(db, reference_product, location, name))
    ELSE IF ~InStr(Str_production, name)
    THEN SearchThenScan(db, reference_product, location, name)
    ELSE IF name = Str_production
    THEN ProductionCode(db, reference_product, location, name)
    ELSE IF StartsWith(Str_production, name) /\ name # Str_production
    THEN SearchThenScan(db, reference_product, location,
                        reference_product \o <<" ">> \o name)
    ELSE IF InStr(Str_production, name)
    THEN SearchThenScan(db, reference_product, location, name)
    ELSE [kind |-> "print", code |-> 0]

\* a record that names the exchange where its origin belongs
BucketRecord_NoOrigin(exc, proc) ==
    [name |-> exc.name, origin |-> exc.name, amount |-> exc.amount]

\* {'name': ..., 'origin': ..., 'amount': ...}
BucketRecord(exc, proc) ==
    [name |-> exc.name, origin |-> proc.name, amount |-> exc.amount]

\* the exchange with its input alone
Linked_InputOnly(exc, proc, database, code) ==
    [exc EXCEPT !.input = <<database, code>>]

\* the exchange with its two ends set
Linked(exc, proc, database, code) ==
    [exc EXCEPT !.output = <<ecoinvent_name, proc.code>>,
                !.input = <<database, code>>]

\* the code of the last process of that name
ProjectCode_Last(d, name) ==
    d[CHOOSE k \in DOMAIN d :
          /\ d[k].name = name
          /\ \A l \in (k + 1)..Len(d) : d[l].name # name].code

\* [_ for _ in self.sp.data if _['name'] == name][0]['code']
ProjectCode(d, name) ==
    d[CHOOSE k \in DOMAIN d :
          /\ d[k].name = name
          /\ \A l \in 1..(k - 1) : d[l].name # name].code

\* a list of obsolete names that is not looked at
IsObsolete_Never(name, obsolete_names) == FALSE

\* name in self.obsolete
IsObsolete(name, obsolete_names) == name \in obsolete_names

\* the only-in-SimaPro test of lines 220-222
IsOnlyInSimapro(reference_product, name) ==
    \/ reference_product = Str_Dieselcomma_burned_in_dieseldashelectric_generating_set
    \/ reference_product = Str_Sulfidic_tailingcomma_offdashsite
    \/ InStr(Str_recycling_of, name)

\* the body of the double loop for exchange j of process i; st holds the
\* data, the three buckets and the exception raised, if any
MatchToEcoinvent(st, i, j, activities, obsolete_names, db) ==
    LET proc == st.data[i]
        exc == proc.exchanges[j]
    IN  IF exc.input # NoLink THEN st
        ELSE IF exc.type \notin {"technosphere", "production"} THEN st
        ELSE IF ~InList(exc.name, activities)
        THEN IF ~InStr(<<"|">>, exc.name) THEN st
             ELSE IF ~ParseOk(exc.name) THEN [st EXCEPT !.err = "IndexError"]
             ELSE IF IsObsolete(exc.name, obsolete_names)
             THEN [st EXCEPT !.obsolete_processes = Append(@, BucketRecord(exc, proc))]
             ELSE IF InStr(Str_Cutdashoffcomma_S, exc.name)
             THEN [st EXCEPT !.system_processes = Append(@, BucketRecord(exc, proc))]
             ELSE IF IsOnlyInSimapro(ReferenceProduct(exc.name), ProcessName(exc.name))
             THEN [st EXCEPT !.only_in_simapro = Append(@, BucketRecord(exc, proc))]
             ELSE LET found == EcoinventCode(db, ReferenceProduct(exc.name),
                                             Location(exc.name), ProcessName(exc.name))
                  IN  IF found.kind = "code"
                      THEN [st EXCEPT !.data[i].exchanges[j] =
                                          Linked(exc, proc, ecoinvent_name, found.code)]
                      ELSE IF found.kind = "IndexError"
                      THEN [st EXCEPT !.err = "IndexError"]
                      ELSE st
        ELSE [st EXCEPT !.data[i].exchanges[j] =
                            Linked(exc, proc, db_name, ProjectCode(st.data, exc.name))]

\* the double loop of lines 193-428, up to the first raise
RECURSIVE MatchAllToEcoinvent(_, _, _, _, _, _)
MatchAllToEcoinvent(st, i, j, activities, obsolete_names, db) ==
    IF st.err # "none" \/ i > Len(st.data) THEN st
    ELSE IF j > Len(st.data[i].exchanges)
    THEN MatchAllToEcoinvent(st, i + 1, 1, activities, obsolete_names, db)
    ELSE MatchAllToEcoinvent(MatchToEcoinvent(st, i, j, activities, obsolete_names, db),
                             i, j + 1, activities, obsolete_names, db)

(***************************************************************************)
(* The tables read from the data files of the package (lines 89-102).      *)
(***************************************************************************)
\* 'Old {GLO}| market for | Cut-off, U'
Str_Old_lbraceGLOrbracebar_market_for_bar_Cutdashoffcomma_U ==
    <<"O", "l", "d", " ", "{", "G", "L", "O", "}", "|", " ", "m", "a", "r",
      "k", "e", "t", " ", "f", "o", "r", " ", "|", " ", "C", "u", "t", "-",
      "o", "f", "f", ",", " ", "U">>
\* 'Ethane, HFC-134a'
Str_Ethanecomma_HFCdash134a ==
    <<"E", "t", "h", "a", "n", "e", ",", " ", "H", "F", "C", "-", "1", "3",
      "4", "a">>
\* 'Ethane, 1,1,1,2-tetrafluoro-, HFC-134a'
Str_Ethanecomma_1comma1comma1comma2dashtetrafluorodashcomma_HFCdash134a ==
    <<"E", "t", "h", "a", "n", "e", ",", " ", "1", ",", "1", ",", "1", ",",
      "2", "-", "t", "e", "t", "r", "a", "f", "l", "u", "o", "r", "o", "-",
      ",", " ", "H", "F", "C", "-", "1", "3", "4", "a">>
\* 'Water, '
Str_Watercomma_ ==
    <<"W", "a", "t", "e", "r", ",", " ">>
\* 'Water'
Str_Water ==
    <<"W", "a", "t", "e", "r">>
\* 'Water, unspecified natural origin'
Str_Watercomma_unspecified_natural_origin ==
    <<"W", "a", "t", "e", "r", ",", " ", "u", "n", "s", "p", "e", "c", "i",
      "f", "i", "e", "d", " ", "n", "a", "t", "u", "r", "a", "l", " ", "o",
      "r", "i", "g", "i", "n">>

\* self.obsolete: the names of the processes that left the reference database
obsolete == {Str_Old_lbraceGLOrbracebar_market_for_bar_Cutdashoffcomma_U}

\* self.comps, self.subcomps: a compartment of SimaPro to the one of the
\* reference flows
comps == ("Resources" :> "natural resource") @@ ("Emissions to air" :> "air")
subcomps == ("in water" :> "in water") @@ ("low. pop." :> "low population density")

\* self.sp_bio_names: (compartment, name in SimaPro, name of the reference flow)
sp_bio_names == <<<<"air", Str_Ethanecomma_HFCdash134a, Str_Ethanecomma_1comma1comma1comma2dashtetrafluorodashcomma_HFCdash134a>>>>

matching_to_ecoinvent ==
    /\ pc = "ecoinvent"
    /\ LET activities == project_activities \o [i \in DOMAIN data |-> data[i].name]
           st == MatchAllToEcoinvent(
                     [data |-> data, obsolete_processes |-> obsolete_processes,
                      system_processes |-> system_processes,
                      only_in_simapro |-> only_in_simapro, err |-> "none"],
                     1, 1, activities, obsolete, ecoinvent)
       IN  /\ project_activities' = activities
           /\ data' = st.data
           /\ obsolete_processes' = st.obsolete_processes
           /\ system_processes' = st.system_processes
           /\ only_in_simapro' = st.only_in_simapro
           /\ err' = st.err
           /\ pc' = IF st.err = "none" THEN "biosphere" ELSE "aborted"
    /\ UNCHANGED <<global_parameters, allocation_with_parameters,
                   created_biosphere_flows, ecoinvent, biosphere, next_code,
                   warnings, parsed,
                   written, database_parameters, activity_parameters, name_parts>>

(***************************************************************************)
(* matching_to_biosphere                                                   *)
(*                                                                         *)
(* The compartments of the exchanges are keys of comps and subcomps.  The  *)
(* local variable biosphere_code is 0 as long as it is unbound.            *)
(***************************************************************************)

BiosphereFlow(n, cats, c, idx) ==
    [name |-> n, categories |-> cats, code |-> c, indexed |-> idx]

\* a lookup under the name the exchange carries
WaterName_Unchanged(name, category) == name

\* the name the flow is looked up under (lines 442-449)
WaterName(name, category) ==
    IF StartsWith(Str_Watercomma_, name)
    THEN IF category[1] # "Resources" THEN Str_Water
         ELSE Str_Watercomma_unspecified_natural_origin
    ELSE name

\* (self.comps[category[0]],) or (self.comps[category[0]], self.subcomps[category[1]])
TranslatedCategories(category) ==
    IF category[2] = "" THEN <<comps[category[1]]>>
    ELSE <<comps[category[1]], subcomps[category[2]]>>

\* Database(self.biosphere_name).search(query)
SearchFlows(db, query) == SelectSeq(db, LAMBDA flow : flow.indexed)

\* the flows of that name in those categories, among a list of flows
FlowsNamed(flows, name, categories) ==
    SelectSeq(flows, LAMBDA flow : flow.name = name /\ flow.categories = categories)

\* {'exchange name': ..., 'category': ..., 'process name': ..., 'amount': ...}
CreatedFlowRecord(name, category, proc, exc) ==
    [exchange_name |-> name, category |-> category, process_name |-> proc.name,
     amount |-> exc.amount]

\* the record appended when the three retries fail: the keys of line 483
\* without a sub-compartment, those of line 530 with one
RetriedFlowRecord(name, category, proc, exc) ==
    IF category[2] = "" THEN CreatedFlowRecord(name, category, proc, exc)
    ELSE [name |-> name, origin |-> proc.name, amount |-> exc.amount]

\* the body of the double loop for exchange j of process i; st holds the
\* data, the bucket, biosphere_code and the exception raised, if any
MatchToBiosphere(st, i, j, db) ==
    LET proc == st.data[i]
        exc == proc.exchanges[j]
        category == exc.categories
        name == WaterName(exc.name, category)
        categories == TranslatedCategories(category)
        renamed == SelectSeq(sp_bio_names, LAMBDA r :
                       r[2] = name /\ r[1] = comps[category[1]])
        real_name_in_SP == renamed[1][3]
        SetLink(code) ==
            [st EXCEPT !.biosphere_code = code,
                       !.data[i].exchanges[j] = Linked(exc, proc, biosphere_name, code)]
    IN  IF exc.input # NoLink \/ exc.type # "biosphere" THEN st
        ELSE IF FlowsNamed(db, name, categories) # <<>>
        THEN SetLink(FlowsNamed(db, name, categories)[1].code)
        ELSE IF \E k \in DOMAIN sp_bio_names : sp_bio_names[k][2] = name
        THEN IF renamed = <<>> THEN [st EXCEPT !.err = "IndexError"]
             ELSE IF FlowsNamed(SearchFlows(db, real_name_in_SP), real_name_in_SP,
                                categories) # <<>>
             THEN SetLink(FlowsNamed(SearchFlows(db, real_name_in_SP),
                                     real_name_in_SP, categories)[1].code)
             ELSE IF FlowsNamed(db, real_name_in_SP, categories) # <<>>
             THEN SetLink(FlowsNamed(db, real_name_in_SP, categories)[1].code)
             ELSE IF SelectSeq(SearchFlows(db, name),
                               LAMBDA flow : flow.categories = categories) # <<>>
             THEN SetLink(SelectSeq(SearchFlows(db, name),
                              LAMBDA flow : flow.categories = categories)[1].code)
             \* the record is appended and, without a continue, line 543
             \* runs with whatever biosphere_code holds
             ELSE LET dropped == [st EXCEPT !.created_biosphere_flows =
                          Append(@, RetriedFlowRecord(name, category, proc, exc))]
                  IN  IF st.biosphere_code = 0
                      THEN [dropped EXCEPT !.err = "UnboundLocalError"]
                      ELSE [dropped EXCEPT !.data[i].exchanges[j] =
                               Linked(exc, proc, biosphere_name, st.biosphere_code)]
        ELSE [st EXCEPT !.created_biosphere_flows =
                            Append(@, CreatedFlowRecord(name, category, proc, exc))]

\* the double loop of lines 437-544, up to the first raise
RECURSIVE MatchAllToBiosphere(_, _, _, _)
MatchAllToBiosphere(st, i, j, db) ==
    IF st.err # "none" \/ i > Len(st.data) THEN st
    ELSE IF j > Len(st.data[i].exchanges)
    THEN MatchAllToBiosphere(st, i + 1, 1, db)
    ELSE MatchAllToBiosphere(MatchToBiosphere(st, i, j, db), i, j + 1, db)

matching_to_biosphere ==
    /\ pc = "biosphere"
    /\ LET st == MatchAllToBiosphere(
                     [data |-> data,
                      created_biosphere_flows |-> created_biosphere_flows,
                      biosphere_code |-> 0, err |-> "none"],
                     1, 1, biosphere)
       IN  /\ data' = st.data
           /\ created_biosphere_flows' = st.created_biosphere_flows
           /\ err' = st.err
           /\ pc' = IF st.err = "none" THEN "prune" ELSE "aborted"
    /\ UNCHANGED <<global_parameters, allocation_with_parameters,
                   project_activities, obsolete_processes, system_processes,
                   only_in_simapro, ecoinvent, biosphere, next_code, warnings,
                   parsed,
                   written, database_parameters, activity_parameters, name_parts>>

(***************************************************************************)
(* removing_unlinked_exchanges                                             *)
(***************************************************************************)
\* for x in range(0, 10)
Passes == 10

\* a turn of the loop that removes the exchange at j, linked or not
PruneStep_Unconditional(s) ==
    IF s.j <= Len(s.exchanges)
    THEN [exchanges |-> Remove(s.exchanges, s.exchanges[s.j]), j |-> s.j + 1]
    ELSE [s EXCEPT !.j = @ + 1]

\* a turn of the loop that removes nothing
PruneStep_Counting(s) == [s EXCEPT !.j = @ + 1]

\* one turn of the loop on j (lines 557-561): the exchange at j leaves the
\* list when it has no 'input'; past the end of the shortened list the
\* IndexError is passed over
PruneStep(s) ==
    IF s.j <= Len(s.exchanges) /\ s.exchanges[s.j].input = NoLink
    THEN [exchanges |-> Remove(s.exchanges, s.exchanges[s.j]), j |-> s.j + 1]
    ELSE [s EXCEPT !.j = @ + 1]

\* n turns of the loop: the first half of them, then the others, which
\* only count once j is past the end of the list
RECURSIVE PruneSteps(_, _)
PruneSteps(s, n) ==
    IF n = 0 THEN s
    ELSE IF n = 1 THEN PruneStep(s)
    ELSE LET half == PruneSteps(s, n \div 2)
         IN  IF half.j > Len(half.exchanges) THEN [half EXCEPT !.j = s.j + n]
             ELSE PruneSteps(half, n - (n \div 2))

\* for j in range(0, len(exchanges))
PruneExchanges(excs) == PruneSteps([exchanges |-> excs, j |-> 1], Len(excs)).exchanges

\* one pass over every process
PrunePass(d) ==
    [i \in DOMAIN d |-> [d[i] EXCEPT !.exchanges = PruneExchanges(@)]]

RECURSIVE PrunePasses(_, _)
PrunePasses(d, x) == IF x = 0 THEN d ELSE PrunePasses(PrunePass(d), x - 1)

\* the coordinates the double check prints, in the order it prints them
RECURSIVE Warnings(_, _)
Warnings(d, i) ==
    IF i > Len(d) THEN <<>>
    ELSE LET unlinked == SelectSeq([j \in DOMAIN d[i].exchanges |-> j],
                                   LAMBDA j : d[i].exchanges[j].input = NoLink)
         IN  [k \in DOMAIN unlinked |-> <<i - 1, unlinked[k] - 1>>]
                 \o Warnings(d, i + 1)

removing_unlinked_exchanges ==
    /\ pc = "prune"
    /\ data' = PrunePasses(data, Passes)
    /\ warnings' = warnings \o Warnings(data', 1)
    /\ pc' = "original_amounts"
    /\ UNCHANGED <<global_parameters, allocation_with_parameters,
                   project_activities, obsolete_processes, system_processes,
                   only_in_simapro, created_biosphere_flows, ecoinvent,
                   biosphere, next_code, err, parsed,
                   written, database_parameters, activity_parameters, name_parts>>

(***************************************************************************)
(* The two matchers and the pruner: projects of conformed, coded           *)
(* processes, as basic_matching_to_ecoinvent_and_biosphere leaves them,    *)
(* holding their production exchange and up to MaxMatchExchanges further   *)
(* exchanges in all, against reference databases of a few records.         *)
(***************************************************************************)
\* 'Steel plant'
Str_Steel_plant ==
    <<"S", "t", "e", "e", "l", " ", "p", "l", "a", "n", "t">>
\* 'Lorry fleet'
Str_Lorry_fleet ==
    <<"L", "o", "r", "r", "y", " ", "f", "l", "e", "e", "t">>
\* 'Steel {GLO}| market for | Cut-off, U'
Str_Steel_lbraceGLOrbracebar_market_for_bar_Cutdashoffcomma_U ==
    <<"S", "t", "e", "e", "l", " ", "{", "G", "L", "O", "}", "|", " ", "m",
      "a", "r", "k", "e", "t", " ", "f", "o", "r", " ", "|", " ", "C", "u",
      "t", "-", "o", "f", "f", ",", " ", "U">>
\* 'Steel {GLO}| market for | Cut-off, S'
Str_Steel_lbraceGLOrbracebar_market_for_bar_Cutdashoffcomma_S ==
    <<"S", "t", "e", "e", "l", " ", "{", "G", "L", "O", "}", "|", " ", "m",
      "a", "r", "k", "e", "t", " ", "f", "o", "r", " ", "|", " ", "C", "u",
      "t", "-", "o", "f", "f", ",", " ", "S">>
\* 'Packaging'
Str_Packaging ==
    <<"P", "a", "c", "k", "a", "g", "i", "n", "g">>
\* 'Water, river'
Str_Watercomma_river ==
    <<"W", "a", "t", "e", "r", ",", " ", "r", "i", "v", "e", "r">>
\* 'Water, CA'
Str_Watercomma_CA ==
    <<"W", "a", "t", "e", "r", ",", " ", "C", "A">>
\* 'Carbon dioxide, fossil'
Str_Carbon_dioxidecomma_fossil ==
    <<"C", "a", "r", "b", "o", "n", " ", "d", "i", "o", "x", "i", "d", "e",
      ",", " ", "f", "o", "s", "s", "i", "l">>
\* 'Unobtainium'
Str_Unobtainium ==
    <<"U", "n", "o", "b", "t", "a", "i", "n", "i", "u", "m">>
\* 'market for steel'
Str_market_for_steel ==
    <<"m", "a", "r", "k", "e", "t", " ", "f", "o", "r", " ", "s", "t", "e",
      "e", "l">>
\* 'steel'
Str_steel ==
    <<"s", "t", "e", "e", "l">>
\* 'GLO'
Str_GLO ==
    <<"G", "L", "O">>

\* the names of the processes of the project
MatchNames == <<Str_Steel_plant, Str_Lorry_fleet>>

\* the exchanges a process is made of: technosphere exchanges on an
\* activity of the reference database, an obsolete one, a system one, one
\* whose name holds no '|', one on a process of the project, one that the
\* basic matching linked; biosphere exchanges on water, on a renamed flow,
\* on a reference flow and on a flow that exists nowhere
MatchExchanges ==
    <<Exchange(Str_Steel_lbraceGLOrbracebar_market_for_bar_Cutdashoffcomma_U, 100, "technosphere",
               NoAllocation, "kg"),
      Exchange(Str_Old_lbraceGLOrbracebar_market_for_bar_Cutdashoffcomma_U, 200, "technosphere",
               NoAllocation, "kg"),
      Exchange(Str_Steel_lbraceGLOrbracebar_market_for_bar_Cutdashoffcomma_S, 300, "technosphere",
               NoAllocation, "kg"),
      Exchange(Str_Packaging, 400, "technosphere", NoAllocation, "kg"),
      Exchange(Str_Steel_plant, 500, "technosphere", NoAllocation, "kg"),
      [Exchange(Str_Steel_lbraceGLOrbracebar_market_for_bar_Cutdashoffcomma_U, 600, "technosphere",
                NoAllocation, "kg") EXCEPT !.input = <<ecoinvent_name, 11>>],
      [Exchange(Str_Watercomma_river, 700, "biosphere", NoAllocation, "m3")
           EXCEPT !.categories = <<"Resources", "in water">>],
      [Exchange(Str_Watercomma_CA, 800, "biosphere", NoAllocation, "m3")
           EXCEPT !.categories = <<"Emissions to air", "">>],
      [Exchange(Str_Ethanecomma_HFCdash134a, 900, "biosphere", NoAllocation, "kg")
           EXCEPT !.categories = <<"Emissions to air", "">>],
      [Exchange(Str_Carbon_dioxidecomma_fossil, 1000, "biosphere", NoAllocation, "kg")
           EXCEPT !.categories = <<"Emissions to air", "">>],
      [Exchange(Str_Unobtainium, 1100, "biosphere", NoAllocation, "kg")
           EXCEPT !.categories = <<"Emissions to air", "low. pop.">>]>>

\* the reference databases: complete and indexed, complete and not
\* indexed, and nearly empty
Ecoinvent(idx) == <<Activity(Str_market_for_steel, Str_steel, Str_GLO, 11, idx)>>

Biosphere(idx) ==
    <<BiosphereFlow(Str_Watercomma_unspecified_natural_origin,
                    <<"natural resource", "in water">>, 21, idx),
      BiosphereFlow(Str_Water, <<"air">>, 22, idx),
      BiosphereFlow(Str_Ethanecomma_1comma1comma1comma2dashtetrafluorodashcomma_HFCdash134a, <<"air">>, 23, idx),
      BiosphereFlow(Str_Carbon_dioxidecomma_fossil, <<"air">>, 24, idx)>>

Worlds ==
    <<[ecoinvent |-> Ecoinvent(TRUE), biosphere |-> Biosphere(TRUE)],
      [ecoinvent |-> Ecoinvent(FALSE), biosphere |-> Biosphere(FALSE)],
      [ecoinvent |-> Ecoinvent(TRUE),
       biosphere |-> <<BiosphereFlow(Str_Carbon_dioxidecomma_fossil, <<"air">>, 24, TRUE)>>]>>

\* process i of the project under the name n: its production exchange,
\* then the exchanges of its shape
MatchProcess(i, n, shape) ==
    [Process(TRUE, n, 1, FALSE, <<>>,
             <<Exchange(n, 1, "production", NoAllocation, NoText)>>
                 \o [j \in DOMAIN shape.exchanges |->
                         MatchExchanges[shape.exchanges[j]]])
        EXCEPT !.code = i]

\* the last process of the project may be a copy of a process that has
\* left the reference database, still under its name
InitMatch ==
    /\ \E shapes \in Projects(Shapes(Len(MatchExchanges), {1}), Len(MatchNames),
                              MaxMatchExchanges) :
           \E copied \in BOOLEAN :
               data = [i \in DOMAIN MatchNames |->
                          MatchProcess(i,
                              IF copied /\ i = Len(MatchNames)
                              THEN Str_Old_lbraceGLOrbracebar_market_for_bar_Cutdashoffcomma_U
                              ELSE MatchNames[i],
                              shapes[i])]
    /\ \E w \in DOMAIN Worlds :
           /\ ecoinvent = Worlds[w].ecoinvent
           /\ biosphere = Worlds[w].biosphere
    /\ global_parameters = <<>>
    /\ allocation_with_parameters = <<>>
    /\ project_activities = <<>>
    /\ obsolete_processes = <<>>
    /\ system_processes = <<>>
    /\ only_in_simapro = <<>>
    /\ created_biosphere_flows = <<>>
    /\ next_code = Len(MatchNames)
    /\ warnings = <<>>
    /\ written = <<>>
    /\ database_parameters = <<>>
    /\ activity_parameters = <<>>
    /\ name_parts = <<>>
    /\ err = "none"
    /\ pc = "ecoinvent"
    /\ parsed = data

NextMatch ==
    \/ matching_to_ecoinvent
    \/ matching_to_biosphere
    \/ removing_unlinked_exchanges

SpecMatch == InitMatch /\ [][NextMatch]_vars

\* exchange j of process i as the matchers found it
Found(i, j) == parsed[i].exchanges[j]

\* the places of the exchanges of the project
Places == {<<i, j>> \in (1..Len(parsed)) \X (1..(1 + MaxMatchExchanges)) :
               j <= Len(parsed[i].exchanges)}

\* the exchanges matching_to_ecoinvent sends to the obsolete bucket: without
\* a link, of type technosphere or production, under a listed obsolete name
\* that holds a '|' and is not the name of a process of the project
RoutedAsObsolete(i, j) ==
    /\ Found(i, j).type \in {"technosphere", "production"}
    /\ Found(i, j).name \in obsolete
    /\ Found(i, j).input = NoLink
    /\ InStr(<<"|">>, Found(i, j).name)
    /\ \A k \in DOMAIN parsed : parsed[k].name # Found(i, j).name

\* matching_to_ecoinvent has returned and the pruner has not run yet
EcoinventMatched == pc \in {"biosphere", "prune"}

\* C7 (as amended): an exchange without a link, of type technosphere or
\* production, whose name is a listed obsolete name, holds a '|' and is not
\* the name of a process of the project, has no input after
\* matching_to_ecoinvent, and the obsolete bucket holds a record of its
\* name, its origin process name and its amount.
C7_ObsoleteRouted ==
    EcoinventMatched =>
        \A p \in Places :
            RoutedAsObsolete(p[1], p[2]) =>
                /\ data[p[1]].exchanges[p[2]].input = NoLink
                /\ InList([name |-> Found(p[1], p[2]).name,
                           origin |-> parsed[p[1]].name,
                           amount |-> Found(p[1], p[2]).amount],
                          obsolete_processes)

C7_Witness ==
    /\ EcoinventMatched
    /\ \E p \in Places :
           /\ RoutedAsObsolete(p[1], p[2])
           /\ data[p[1]].exchanges[p[2]].input = NoLink
           /\ InList([name |-> Found(p[1], p[2]).name,
                      origin |-> parsed[p[1]].name,
                      amount |-> Found(p[1], p[2]).amount],
                     obsolete_processes)

\* C7 as stated: every technosphere or production exchange under a listed
\* obsolete name has no input after matching_to_ecoinvent and is recorded
\* in the obsolete bucket.
C7_EveryObsoleteNameRouted ==
    EcoinventMatched =>
        \A p \in Places :
            (/\ Found(p[1], p[2]).type \in {"technosphere", "production"}
             /\ Found(p[1], p[2]).name \in obsolete) =>
                /\ data[p[1]].exchanges[p[2]].input = NoLink
                /\ InList([name |-> Found(p[1], p[2]).name,
                           origin |-> parsed[p[1]].name,
                           amount |-> Found(p[1], p[2]).amount],
                          obsolete_processes)

\* a biosphere exchange on water that the biosphere matcher has to link
UnlinkedWater(i, j) ==
    /\ Found(i, j).type = "biosphere"
    /\ Found(i, j).input = NoLink
    /\ StartsWith(Str_Watercomma_, Found(i, j).name)

\* the name C8 gives for the lookup
LookupName(i, j) ==
    IF Found(i, j).categories[1] = "Resources"
    THEN Str_Watercomma_unspecified_natural_origin
    ELSE Str_Water

\* the reference flows of the lookup name in the translated categories
LookupFlows(i, j) ==
    FlowsNamed(biosphere, LookupName(i, j),
               TranslatedCategories(Found(i, j).categories))

\* C8: an unlinked biosphere exchange whose name begins with 'Water, ' is
\* looked up under 'Water, unspecified natural origin' when its top-level
\* category is 'Resources' and under 'Water' otherwise, whatever follows
\* 'Water, ': after matching_to_biosphere it is linked to the first
\* reference flow of that name in the translated categories when there is
\* one; when there is none (and no rename of that name) it stays without a
\* link and the bucket record carries that name.
C8_WaterNormalized ==
    pc = "prune" =>
        \A p \in Places :
            UnlinkedWater(p[1], p[2]) =>
                IF LookupFlows(p[1], p[2]) # <<>>
                THEN data[p[1]].exchanges[p[2]].input =
                         <<biosphere_name, LookupFlows(p[1], p[2])[1].code>>
                ELSE (\A k \in DOMAIN sp_bio_names :
                          sp_bio_names[k][2] # LookupName(p[1], p[2])) =>
                         /\ data[p[1]].exchanges[p[2]].input = NoLink
                         /\ InList(CreatedFlowRecord(LookupName(p[1], p[2]),
                                       Found(p[1], p[2]).categories, parsed[p[1]],
                                       Found(p[1], p[2])),
                                   created_biosphere_flows)

\* 'Water, river' of the top-level category 'Resources' linked to the flow
\* named 'Water, unspecified natural origin'
C8_Witness ==
    /\ pc = "prune"
    /\ \E p \in Places :
           /\ UnlinkedWater(p[1], p[2])
           /\ Found(p[1], p[2]).name = Str_Watercomma_river
           /\ Found(p[1], p[2]).categories[1] = "Resources"
           /\ \E k \in DOMAIN biosphere :
                  /\ biosphere[k].name = Str_Watercomma_unspecified_natural_origin
                  /\ data[p[1]].exchanges[p[2]].input =
                         <<biosphere_name, biosphere[k].code>>

\* the number of exchanges of a list equal to exc
Count(excs, exc) == Cardinality({j \in DOMAIN excs : excs[j] = exc})

\* a record of the exchange in one of the four buckets
Recorded(exc, proc) ==
    \/ \E bucket \in {obsolete_processes, system_processes, only_in_simapro} :
           InList(BucketRecord(exc, proc), bucket)
    \/ /\ exc.type = "biosphere"
       /\ \/ InList(CreatedFlowRecord(WaterName(exc.name, exc.categories),
                                      exc.categories, proc, exc),
                    created_biosphere_flows)
          \/ InList([name |-> WaterName(exc.name, exc.categories),
                     origin |-> proc.name, amount |-> exc.amount],
                    created_biosphere_flows)

\* C10: every exchange that removing_unlinked_exchanges deletes from a
\* process was recorded beforehand in one of the four buckets.
C10_DeletedWereRecorded ==
    [][removing_unlinked_exchanges =>
          \A i \in DOMAIN data : \A j \in DOMAIN data[i].exchanges :
              Count(data'[i].exchanges, data[i].exchanges[j]) <
                  Count(data[i].exchanges, data[i].exchanges[j]) =>
                  Recorded(data[i].exchanges[j], data[i])]_vars

(***************************************************************************)
(* The pruner on its own: projects of up to MaxProcs processes holding up  *)
(* to MaxPruneExchanges exchanges in all, and the projects of one process  *)
(* with 2^Passes exchanges that the matcher passed over, and with one      *)
(* fewer.                                                                  *)
(***************************************************************************)

\* 'Pallet'
Str_Pallet ==
    <<"P", "a", "l", "l", "e", "t">>

\* two exchanges whose names hold no '|', left without a link and without
\* a record, and a linked one
PrunedExchanges ==
    <<Exchange(Str_Packaging, 400, "technosphere", NoAllocation, "kg"),
      Exchange(Str_Pallet, 450, "technosphere", NoAllocation, "kg"),
      [Exchange(Str_Steel_lbraceGLOrbracebar_market_for_bar_Cutdashoffcomma_U, 600, "technosphere",
                NoAllocation, "kg") EXCEPT !.input = <<ecoinvent_name, 11>>]>>

PruneProcess(i, excs) ==
    [Process(TRUE, MatchNames[1], 1, FALSE, <<>>, excs) EXCEPT !.code = i]

ManyExchanges == [j \in 1..(2 ^ Passes) |-> PrunedExchanges[1]]

InitPrune ==
    /\ \/ \E m \in 1..MaxProcs :
              \E shapes \in Projects(Shapes(Len(PrunedExchanges), {1}), m,
                                     MaxPruneExchanges) :
                  data = [i \in 1..m |->
                             PruneProcess(i, [j \in DOMAIN shapes[i].exchanges |->
                                 PrunedExchanges[shapes[i].exchanges[j]]])]
       \/ data = <<PruneProcess(1, ManyExchanges)>>
       \/ data = <<PruneProcess(1, Tail(ManyExchanges))>>
    /\ ecoinvent = Ecoinvent(TRUE)
    /\ biosphere = Biosphere(TRUE)
    /\ global_parameters = <<>>
    /\ allocation_with_parameters = <<>>
    /\ project_activities = [i \in DOMAIN data |-> data[i].name]
    /\ obsolete_processes = <<>>
    /\ system_processes = <<>>
    /\ only_in_simapro = <<>>
    /\ created_biosphere_flows = <<>>
    /\ next_code = Len(data)
    /\ warnings = <<>>
    /\ written = <<>>
    /\ database_parameters = <<>>
    /\ activity_parameters = <<>>
    /\ name_parts = <<>>
    /\ err = "none"
    /\ pc = "prune"
    /\ parsed = data

NextPrune == removing_unlinked_exchanges

SpecPrune == InitPrune /\ [][NextPrune]_vars

\* C9: after the 10 passes of removing_unlinked_exchanges no process holds
\* an exchange without an input, and the verification scan warns of none.
C9_NothingUnlinkedRemains ==
    pc = "original_amounts" =>
        /\ \A i \in DOMAIN data : \A j \in DOMAIN data[i].exchanges :
               data[i].exchanges[j].input # NoLink
        /\ warnings = <<>>

(***************************************************************************)
(* The biosphere matcher on its own: projects as matching_to_ecoinvent     *)
(* leaves them, holding up to MaxBioExchanges biosphere exchanges in all,  *)
(* against reference flow lists that are complete or nearly empty, indexed *)
(* or not.                                                                 *)
(***************************************************************************)
\* 'FR'
Str_FR ==
    <<"F", "R">>
\* 'CA'
Str_CA ==
    <<"C", "A">>
\* 'Ammonia, FR'
Str_Ammoniacomma_FR ==
    <<"A", "m", "m", "o", "n", "i", "a", ",", " ", "F", "R">>
\* 'Ammonia'
Str_Ammonia ==
    <<"A", "m", "m", "o", "n", "i", "a">>

\* self.countries: the countries SimaPro has regionalized flows for
countries == {Str_FR, Str_CA}

\* the biosphere exchanges of the matchers' specification, a renamed flow
\* in a sub-compartment, a flow that carries a country and a flow whose
\* name is renamed in another compartment only
BioExchanges ==
    SubSeq(MatchExchanges, 7, 11) \o
    <<[Exchange(Str_Ethanecomma_HFCdash134a, 1200, "biosphere", NoAllocation, "kg")
           EXCEPT !.categories = <<"Emissions to air", "low. pop.">>],
      [Exchange(Str_Ammoniacomma_FR, 1300, "biosphere", NoAllocation, "kg")
           EXCEPT !.categories = <<"Emissions to air", "">>],
      [Exchange(Str_Ethanecomma_HFCdash134a, 1400, "biosphere", NoAllocation, "kg")
           EXCEPT !.categories = <<"Resources", "">>]>>

BioWorlds ==
    <<Biosphere(TRUE), Biosphere(FALSE),
      <<BiosphereFlow(Str_Carbon_dioxidecomma_fossil, <<"air">>, 24, TRUE)>>,
      <<BiosphereFlow(Str_Carbon_dioxidecomma_fossil, <<"air">>, 24, FALSE),
        BiosphereFlow(Str_Ammonia, <<"air">>, 25, FALSE)>>>>

\* process i of the project: its production exchange, linked to the
\* process itself by lines 424-428, then the exchanges of its shape
BioProcess(i, shape) ==
    LET proc == [Process(TRUE, MatchNames[i], 1, FALSE, <<>>, <<>>) EXCEPT !.code = i]
    IN  [proc EXCEPT !.exchanges =
            <<Linked(Exchange(MatchNames[i], 1, "production", NoAllocation, NoText),
                     proc, db_name, i)>>
                \o [j \in DOMAIN shape.exchanges |-> BioExchanges[shape.exchanges[j]]]]

InitBio ==
    /\ \E shapes \in Projects(Shapes(Len(BioExchanges), {1}), Len(MatchNames),
                              MaxBioExchanges) :
           data = [i \in DOMAIN MatchNames |-> BioProcess(i, shapes[i])]
    /\ \E w \in DOMAIN BioWorlds : biosphere = BioWorlds[w]
    /\ ecoinvent = Ecoinvent(TRUE)
    /\ global_parameters = <<>>
    /\ allocation_with_parameters = <<>>
    /\ project_activities = MatchNames
    /\ obsolete_processes = <<>>
    /\ system_processes = <<>>
    /\ only_in_simapro = <<>>
    /\ created_biosphere_flows = <<>>
    /\ next_code = Len(MatchNames)
    /\ warnings = <<>>
    /\ written = <<>>
    /\ database_parameters = <<>>
    /\ activity_parameters = <<>>
    /\ name_parts = <<>>
    /\ err = "none"
    /\ pc = "biosphere"
    /\ parsed = data

NextBio == matching_to_biosphere

SpecBio == InitBio /\ [][NextBio]_vars

\* the places of the exchanges of the project, whatever their number
EveryPlace ==
    UNION {{<<i, j>> : j \in DOMAIN parsed[i].exchanges} : i \in DOMAIN parsed}

\* a biosphere exchange that no lookup of the matcher can resolve: none
\* under its name, and either no rename of that name or no flow under the
\* new name and none that the category-only search returns
TotalMiss(i, j) ==
    LET name == WaterName(Found(i, j).name, Found(i, j).categories)
        categories == TranslatedCategories(Found(i, j).categories)
    IN  /\ Found(i, j).type = "biosphere"
        /\ Found(i, j).input = NoLink
        /\ FlowsNamed(biosphere, name, categories) = <<>>
        /\ \A k \in DOMAIN sp_bio_names :
               sp_bio_names[k][2] = name =>
                   /\ FlowsNamed(biosphere, sp_bio_names[k][3], categories) = <<>>
                   /\ \A f \in DOMAIN biosphere :
                          ~(biosphere[f].indexed /\ biosphere[f].categories = categories)

\* a record of exchange j of process i in the created-biosphere-flows
\* bucket, under either set of keys
InCreatedFlows(i, j) ==
    LET name == WaterName(Found(i, j).name, Found(i, j).categories)
    IN  \/ InList(CreatedFlowRecord(name, Found(i, j).categories, parsed[i],
                                    Found(i, j)),
                  created_biosphere_flows)
        \/ InList([name |-> name, origin |-> parsed[i].name,
                   amount |-> Found(i, j).amount],
                  created_biosphere_flows)

\* C11: a biosphere exchange that is a total miss is appended to the
\* created-biosphere-flows bucket and is left without input and without
\* output when matching_to_biosphere returns, whatever was resolved before.
C11_TotalMissLeftUnresolved ==
    pc = "prune" =>
        \A p \in EveryPlace :
            TotalMiss(p[1], p[2]) =>
                /\ InCreatedFlows(p[1], p[2])
                /\ data[p[1]].exchanges[p[2]].input = NoLink
                /\ data[p[1]].exchanges[p[2]].output = NoLink

(***************************************************************************)
(* The reference matcher on its own: projects as the basic matching leaves *)
(* them, holding up to MaxEcoExchanges technosphere exchanges in all,      *)
(* against a reference database that is complete and indexed, complete and *)
(* not indexed, or empty.                                                  *)
(***************************************************************************)
\* 'Sulfidic tailing, off-site {GLO}| treatment of | Cut-off, S'
Str_Sulfidic_tailingcomma_offdashsite_lbraceGLOrbracebar_treatment_of_bar_Cutdashoffcomma_S ==
    <<"S", "u", "l", "f", "i", "d", "i", "c", " ", "t", "a", "i", "l", "i",
      "n", "g", ",", " ", "o", "f", "f", "-", "s", "i", "t", "e", " ", "{",
      "G", "L", "O", "}", "|", " ", "t", "r", "e", "a", "t", "m", "e", "n",
      "t", " ", "o", "f", " ", "|", " ", "C", "u", "t", "-", "o", "f", "f",
      ",", " ", "S">>
\* 'Sulfidic tailing, off-site {GLO}| treatment of | Cut-off, U'
Str_Sulfidic_tailingcomma_offdashsite_lbraceGLOrbracebar_treatment_of_bar_Cutdashoffcomma_U ==
    <<"S", "u", "l", "f", "i", "d", "i", "c", " ", "t", "a", "i", "l", "i",
      "n", "g", ",", " ", "o", "f", "f", "-", "s", "i", "t", "e", " ", "{",
      "G", "L", "O", "}", "|", " ", "t", "r", "e", "a", "t", "m", "e", "n",
      "t", " ", "o", "f", " ", "|", " ", "C", "u", "t", "-", "o", "f", "f",
      ",", " ", "U">>
\* 'Building {GLO}| construction | Cut-off, U'
Str_Building_lbraceGLOrbracebar_construction_bar_Cutdashoffcomma_U ==
    <<"B", "u", "i", "l", "d", "i", "n", "g", " ", "{", "G", "L", "O", "}",
      "|", " ", "c", "o", "n", "s", "t", "r", "u", "c", "t", "i", "o", "n",
      " ", "|", " ", "C", "u", "t", "-", "o", "f", "f", ",", " ", "U">>
\* 'Steel, low-alloyed {RER}| steel production, converter, low-alloyed | Cut-off, U'
Str_Steelcomma_lowdashalloyed_lbraceRERrbracebar_steel_productioncomma_convertercomma_lowdashalloyed_bar_Cutdashoffcomma_U ==
    <<"S", "t", "e", "e", "l", ",", " ", "l", "o", "w", "-", "a", "l", "l",
      "o", "y", "e", "d", " ", "{", "R", "E", "R", "}", "|", " ", "s", "t",
      "e", "e", "l", " ", "p", "r", "o", "d", "u", "c", "t", "i", "o", "n",
      ",", " ", "c", "o", "n", "v", "e", "r", "t", "e", "r", ",", " ", "l",
      "o", "w", "-", "a", "l", "l", "o", "y", "e", "d", " ", "|", " ", "C",
      "u", "t", "-", "o", "f", "f", ",", " ", "U">>
\* 'market for old'
Str_market_for_old ==
    <<"m", "a", "r", "k", "e", "t", " ", "f", "o", "r", " ", "o", "l", "d">>
\* 'old'
Str_old ==
    <<"o", "l", "d">>
\* 'treatment of sulfidic tailing, off-site'
Str_treatment_of_sulfidic_tailingcomma_offdashsite ==
    <<"t", "r", "e", "a", "t", "m", "e", "n", "t", " ", "o", "f", " ", "s",
      "u", "l", "f", "i", "d", "i", "c", " ", "t", "a", "i", "l", "i", "n",
      "g", ",", " ", "o", "f", "f", "-", "s", "i", "t", "e">>
\* 'sulfidic tailing, off-site'
Str_sulfidic_tailingcomma_offdashsite ==
    <<"s", "u", "l", "f", "i", "d", "i", "c", " ", "t", "a", "i", "l", "i",
      "n", "g", ",", " ", "o", "f", "f", "-", "s", "i", "t", "e">>
\* 'building construction'
Str_building_construction ==
    <<"b", "u", "i", "l", "d", "i", "n", "g", " ", "c", "o", "n", "s", "t",
      "r", "u", "c", "t", "i", "o", "n">>
\* 'building'
Str_building ==
    <<"b", "u", "i", "l", "d", "i", "n", "g">>
\* 'steel production, converter, low-alloyed'
Str_steel_productioncomma_convertercomma_lowdashalloyed ==
    <<"s", "t", "e", "e", "l", " ", "p", "r", "o", "d", "u", "c", "t", "i",
      "o", "n", ",", " ", "c", "o", "n", "v", "e", "r", "t", "e", "r", ",",
      " ", "l", "o", "w", "-", "a", "l", "l", "o", "y", "e", "d">>
\* 'steel, low-alloyed'
Str_steelcomma_lowdashalloyed ==
    <<"s", "t", "e", "e", "l", ",", " ", "l", "o", "w", "-", "a", "l", "l",
      "o", "y", "e", "d">>
\* 'RER'
Str_RER ==
    <<"R", "E", "R">>

\* technosphere exchanges on a market, on an obsolete process, on system
\* processes, on a treatment only SimaPro has, on a construction and on a
\* production
EcoExchanges ==
    SubSeq(MatchExchanges, 1, 3) \o
    <<Exchange(Str_Sulfidic_tailingcomma_offdashsite_lbraceGLOrbracebar_treatment_of_bar_Cutdashoffcomma_S,
               1400, "technosphere", NoAllocation, "kg"),
      Exchange(Str_Sulfidic_tailingcomma_offdashsite_lbraceGLOrbracebar_treatment_of_bar_Cutdashoffcomma_U,
               1500, "technosphere", NoAllocation, "kg"),
      Exchange(Str_Building_lbraceGLOrbracebar_construction_bar_Cutdashoffcomma_U,
               1600, "technosphere", NoAllocation, "unit"),
      Exchange(Str_Steelcomma_lowdashalloyed_lbraceRERrbracebar_steel_productioncomma_convertercomma_lowdashalloyed_bar_Cutdashoffcomma_U,
               1700, "technosphere", NoAllocation, "kg")>>

\* the activities of the complete reference database: the ones the
\* exchanges are about, next to activities under the name a later rule of
\* the cascade would look for
EcoActivities(idx) ==
    <<Activity(Str_market_for_steel, Str_steel, Str_GLO, 11, idx),
      Activity(Str_market_for, Str_steel, Str_GLO, 12, idx),
      Activity(Str_market_for_old, Str_old, Str_GLO, 13, idx),
      Activity(Str_treatment_of_sulfidic_tailingcomma_offdashsite,
               Str_sulfidic_tailingcomma_offdashsite, Str_GLO, 14, idx),
      Activity(Str_building_construction, Str_building, Str_GLO, 15, idx),
      Activity(Str_construction, Str_building, Str_GLO, 16, idx),
      Activity(Str_steel_productioncomma_convertercomma_lowdashalloyed,
               Str_steelcomma_lowdashalloyed, Str_RER, 17, idx)>>

EcoWorlds == <<EcoActivities(TRUE), EcoActivities(FALSE), <<>>>>

\* process i of the project: its production exchange, then the exchanges
\* of its shape
EcoProcess(i, shape) ==
    [Process(TRUE, MatchNames[i], 1, FALSE, <<>>,
             <<Exchange(MatchNames[i], 1, "production", NoAllocation, NoText)>>
                 \o [j \in DOMAIN shape.exchanges |->
                         EcoExchanges[shape.exchanges[j]]])
        EXCEPT !.code = i]

InitEco ==
    /\ \E shapes \in Projects(Shapes(Len(EcoExchanges), {1}), Len(MatchNames),
                              MaxEcoExchanges) :
           data = [i \in DOMAIN MatchNames |-> EcoProcess(i, shapes[i])]
    /\ \E w \in DOMAIN EcoWorlds : ecoinvent = EcoWorlds[w]
    /\ biosphere = Biosphere(TRUE)
    /\ global_parameters = <<>>
    /\ allocation_with_parameters = <<>>
    /\ project_activities = <<>>
    /\ obsolete_processes = <<>>
    /\ system_processes = <<>>
    /\ only_in_simapro = <<>>
    /\ created_biosphere_flows = <<>>
    /\ next_code = Len(MatchNames)
    /\ warnings = <<>>
    /\ written = <<>>
    /\ database_parameters = <<>>
    /\ activity_parameters = <<>>
    /\ name_parts = <<>>
    /\ err = "none"
    /\ pc = "ecoinvent"
    /\ parsed = data

NextEco == matching_to_ecoinvent

SpecEco == InitEco /\ [][NextEco]_vars

\* matching_to_ecoinvent has run, to its end or to an exception
EcoinventRan == pc # "ecoinvent"

\* exchange j of process i is one the double loop takes into the cascade:
\* without a link, of type technosphere or production, not named after a
\* process of the project, with a name that holds a '|' and parses
Parsed(i, j) ==
    /\ Found(i, j).input = NoLink
    /\ Found(i, j).type \in {"technosphere", "production"}
    /\ \A k \in DOMAIN parsed : parsed[k].name # Found(i, j).name
    /\ InStr(<<"|">>, Found(i, j).name)
    /\ ParseOk(Found(i, j).name)

\* the guards of rules 1 to 3
ObsoleteGuard(i, j) == Found(i, j).name \in obsolete
SystemGuard(i, j) == InStr(Str_Cutdashoffcomma_S, Found(i, j).name)
OnlyInSimaproGuard(i, j) ==
    \/ ReferenceProduct(Found(i, j).name) \in
           {Str_Dieselcomma_burned_in_dieseldashelectric_generating_set,
            Str_Sulfidic_tailingcomma_offdashsite}
    \/ InStr(Str_recycling_of, ProcessName(Found(i, j).name))

\* exchange j of process i goes past the buckets, to the rules that search
Searched(i, j) ==
    /\ Parsed(i, j)
    /\ ~ObsoleteGuard(i, j) /\ ~SystemGuard(i, j) /\ ~OnlyInSimaproGuard(i, j)

\* the reference database holds nothing at the location of the exchange,
\* so that no search and no scan of any rule finds a record
NoRecordAtLocation(i, j) ==
    \A k \in DOMAIN ecoinvent : ecoinvent[k].location # Location(Found(i, j).name)

\* no bucket of the reference matcher holds a record of the exchange
InNoBucket(i, j) ==
    \A bucket \in {obsolete_processes, system_processes, only_in_simapro} :
        ~InList([name |-> Found(i, j).name, origin |-> parsed[i].name,
                 amount |-> Found(i, j).amount], bucket)

\* C12: when an exchange gets to the rules that search and no reference
\* record can be found for it, the run aborts on the IndexError; the
\* exchange is not linked and is in no bucket.
C12_FailurePropagates ==
    EcoinventRan =>
        \A p \in EveryPlace :
            (Searched(p[1], p[2]) /\ NoRecordAtLocation(p[1], p[2])) =>
                /\ pc = "aborted"
                /\ err = "IndexError"
                /\ data[p[1]].exchanges[p[2]].input = NoLink
                /\ InNoBucket(p[1], p[2])

C12_Witness ==
    /\ pc = "aborted"
    /\ err = "IndexError"
    /\ \E p \in EveryPlace :
           /\ Searched(p[1], p[2])
           /\ NoRecordAtLocation(p[1], p[2])
           /\ data[p[1]].exchanges[p[2]].input = NoLink

\* the record an input points at exists: an activity of the reference
\* database, a flow of the reference flow list, or the process of the
\* project that carries the name of the exchange
PointsAtRecord(exc) ==
    /\ Len(exc.input) = 2
    /\ \/ /\ exc.input[1] = ecoinvent_name
          /\ \E k \in DOMAIN ecoinvent : ecoinvent[k].code = exc.input[2]
       \/ /\ exc.input[1] = biosphere_name
          /\ \E k \in DOMAIN biosphere : biosphere[k].code = exc.input[2]
       \/ /\ exc.input[1] = db_name
          /\ \E k \in DOMAIN parsed :
                 parsed[k].code = exc.input[2] /\ parsed[k].name = exc.name

\* C13: an exchange that matching_to_ecoinvent or matching_to_biosphere
\* resolves gets both sides: an input (database, code of a record of it)
\* and the output (reference database, code of the process that owns the
\* exchange); no exchange is left by a matcher with one side only.
C13_BothSidesSet ==
    EcoinventMatched =>
        \A p \in Places :
            Found(p[1], p[2]).input = NoLink =>
                LET exc == data[p[1]].exchanges[p[2]]
                IN  \/ exc.input = NoLink /\ exc.output = NoLink
                    \/ /\ PointsAtRecord(exc)
                       /\ exc.output = <<ecoinvent_name, parsed[p[1]].code>>

\* one exchange resolved by each matcher, with both sides
C13_Witness ==
    /\ pc = "prune"
    /\ \E p \in Places, q \in Places :
           /\ Found(p[1], p[2]).input = NoLink
           /\ Found(q[1], q[2]).input = NoLink
           /\ data[p[1]].exchanges[p[2]].input # NoLink
           /\ data[q[1]].exchanges[q[2]].input # NoLink
           /\ data[p[1]].exchanges[p[2]].input[1] = ecoinvent_name
           /\ data[q[1]].exchanges[q[2]].input[1] = biosphere_name
           /\ data[p[1]].exchanges[p[2]].output = <<ecoinvent_name, parsed[p[1]].code>>
           /\ data[q[1]].exchanges[q[2]].output = <<ecoinvent_name, parsed[q[1]].code>>

(***************************************************************************)
(* The stages of __init__ that follow the pruning, and the basic matching  *)
(* that precedes the two matchers.                                         *)
(***************************************************************************)


\* bw2io's link_iterable_by_fields over one database: an exchange without
\* input gets the code of the first record that carries its name; the
\* output side is not touched
MatchDatabase(d, database, records) ==
    [i \in DOMAIN d |-> [d[i] EXCEPT !.exchanges = [j \in DOMAIN @ |->
        LET exc == d[i].exchanges[j]
            same == {k \in DOMAIN records : records[k].name = exc.name}
        IN  IF exc.input = NoLink /\ same # {}
            THEN [exc EXCEPT !.input =
                     <<database, records[CHOOSE k \in same : \A l \in same : k <= l].code>>]
            ELSE exc]]]

\* self.sp.match_database on the reference database, then on the reference
\* flow list; the fields compared that the records of this model do not
\* carry (unit, and the fields an exchange lacks) agree or do not
basic_matching_to_ecoinvent_and_biosphere ==
    /\ pc = "basic_matching"
    /\ \E agree \in BOOLEAN :
           data' = IF agree
                   THEN MatchDatabase(MatchDatabase(data, ecoinvent_name, ecoinvent),
                                      biosphere_name, biosphere)
                   ELSE data
    /\ pc' = "ecoinvent"
    /\ UNCHANGED <<global_parameters, allocation_with_parameters,
                   project_activities, obsolete_processes, system_processes,
                   only_in_simapro, created_biosphere_flows, ecoinvent,
                   biosphere, next_code, warnings, err, parsed,
                   written, database_parameters, activity_parameters, name_parts>>

\* if 'formula' in j: j['original_amount'] = j['amount']
OriginalAmounts(excs) ==
    [j \in DOMAIN excs |->
        IF excs[j].formula # NoText
        THEN [excs[j] EXCEPT !.hasOriginalAmount = TRUE,
                              !.original_amount = excs[j].amount]
        ELSE excs[j]]

define_original_amounts ==
    /\ pc = "original_amounts"
    /\ data' = [i \in DOMAIN data |->
                   [data[i] EXCEPT !.exchanges = OriginalAmounts(@)]]
    /\ pc' = "writing"
    /\ UNCHANGED <<global_parameters, allocation_with_parameters,
                   project_activities, obsolete_processes, system_processes,
                   only_in_simapro, created_biosphere_flows, ecoinvent,
                   biosphere, next_code, warnings, err, parsed,
                   written, database_parameters, activity_parameters, name_parts>>

\* a persistence that is chained before the pruning
writing_database_BeforePruning ==
    /\ pc = "prune"
    /\ written' = data
    /\ pc' = "parameters"
    /\ UNCHANGED <<data, global_parameters, allocation_with_parameters,
                   project_activities, obsolete_processes, system_processes,
                   only_in_simapro, created_biosphere_flows, ecoinvent,
                   biosphere, next_code, warnings, err, parsed,
                   database_parameters, activity_parameters, name_parts>>

\* self.sp.write_database()
writing_database ==
    /\ pc = "writing"
    /\ written' = data
    /\ pc' = "parameters"
    /\ UNCHANGED <<data, global_parameters, allocation_with_parameters,
                   project_activities, obsolete_processes, system_processes,
                   only_in_simapro, created_biosphere_flows, ecoinvent,
                   biosphere, next_code, warnings, err, parsed,
                   database_parameters, activity_parameters, name_parts>>

NotDigit(c) == c \notin {"0", "1", "2", "3", "4", "5", "6", "7", "8", "9"}

\* "_".join(re.sub(r"\s+-", '', re.sub('\d', '', name.replace('-', '_'))).split())
GroupName(name) ==
    LET underscored == [k \in DOMAIN name |-> IF name[k] = "-" THEN "_" ELSE name[k]]
        s == SelectSeq(underscored, NotDigit)
        \* a blank stands between two words when it follows a word and a
        \* word follows it
        Joins(k) == /\ k > 1 /\ s[k - 1] # " "
                    /\ \E l \in DOMAIN s : l > k /\ s[l] # " "
        RECURSIVE Joined(_)
        Joined(k) ==
            IF k > Len(s) THEN <<>>
            ELSE IF s[k] # " " THEN <<s[k]>> \o Joined(k + 1)
            ELSE IF Joins(k) THEN <<"_">> \o Joined(k + 1)
            ELSE Joined(k + 1)
    IN  Joined(1)

\* all_act_param_data of one process: the '_1' parameter, then its own
ActivityParameterData(p) ==
    <<[name |-> GroupName(p.name) \o <<"_", "1">>, code |-> p.code, amount |-> 1,
       formula |-> NoText]>>
    \o [k \in DOMAIN p.parameters |->
           [name |-> p.parameters[k].name, code |-> p.code,
            amount |-> p.parameters[k].amount, formula |-> NoText]]

\* the calls of parameters.new_activity_parameters from process i on: under
\* the group ActivityParameter.select() holds for the code of the process,
\* or under a group named after the process and a uuid4 value
RECURSIVE NewActivityParameters(_, _, _, _)
NewActivityParameters(d, i, grouped, drawn) ==
    IF i > Len(d) THEN [calls |-> <<>>, drawn |-> drawn]
    ELSE IF ~d[i].hasParameters THEN NewActivityParameters(d, i + 1, grouped, drawn)
    ELSE LET fresh == i \notin grouped
             rest == NewActivityParameters(d, i + 1, grouped,
                                           IF fresh THEN drawn + 1 ELSE drawn)
         IN  [calls |-> <<[data |-> ActivityParameterData(d[i]),
                           existing |-> ~fresh,
                           group |-> IF fresh THEN GroupName(d[i].name) ELSE <<>>,
                           uuid |-> IF fresh THEN drawn + 1 ELSE 0]>> \o rest.calls,
              drawn |-> rest.drawn]

importing_parameters ==
    /\ pc = "parameters"
    \* param_list: one dictionary per global parameter, with its name
    /\ database_parameters' = global_parameters
    /\ \E grouped \in SUBSET {i \in DOMAIN data : data[i].hasParameters} :
           LET r == NewActivityParameters(data, 1, grouped, next_code)
           IN  /\ activity_parameters' = r.calls
               /\ next_code' = r.drawn
    /\ pc' = "done"
    /\ UNCHANGED <<data, global_parameters, allocation_with_parameters,
                   project_activities, obsolete_processes, system_processes,
                   only_in_simapro, created_biosphere_flows, ecoinvent,
                   biosphere, warnings, err, parsed, written, name_parts>>

(***************************************************************************)
(* The whole run, from the allocation resolver on: projects of two         *)
(* processes holding up to MaxPipeExchanges exchanges in all.              *)
(***************************************************************************)
\* exchanges the reference matcher links, the flow matcher links, no stage
\* links, and the basic matching may link; the last carries a formula
PipeExchanges ==
    <<MatchExchanges[1], MatchExchanges[7], MatchExchanges[4],
      [Exchange(Str_market_for_steel, 50, "technosphere", NoAllocation, "kg")
          EXCEPT !.formula = "2 * alloc_a"]>>

\* the first process of the project as the importer delivers it: variant 1
\* has one product with a textual allocation that resolves, variant 2 one
\* that does not resolve, variant 3 is a process without 'name' and
\* without allocation
PipeProcess(i, variant, shape) ==
    Process(variant # 3, IF variant # 3 THEN MatchNames[i] ELSE <<>>,
            IF variant # 3 THEN 1 ELSE 0,
            variant # 3, IF variant # 3 THEN ActivityParameters ELSE <<>>,
            <<Exchange(MatchNames[i], 1, "production",
                       CASE variant = 1 -> StrAllocation(Name_alloc_a)
                         [] variant = 2 -> StrAllocation(Name_ghost)
                         [] OTHER -> NoAllocation,
                       "kg")>>
                \o [j \in DOMAIN shape.exchanges |->
                        PipeExchanges[shape.exchanges[j]]])

Init ==
    /\ \E shapes \in Projects(Shapes(Len(PipeExchanges), {1}), Len(MatchNames),
                              MaxPipeExchanges) :
           \E variant \in 1..3 :
               data = [i \in DOMAIN MatchNames |->
                          PipeProcess(i, IF i = 1 THEN variant ELSE 3, shapes[i])]
    /\ global_parameters = GlobalParameters
    /\ ecoinvent = Ecoinvent(TRUE)
    /\ biosphere = Biosphere(TRUE)
    /\ pc = "allocation"
    /\ InitRest

Next ==
    \/ dealing_with_allocation_defined_by_parameters
    \/ conform_data_to_brightway_format
    \/ basic_matching_to_ecoinvent_and_biosphere
    \/ matching_to_ecoinvent
    \/ matching_to_biosphere
    \/ removing_unlinked_exchanges
    \/ define_original_amounts
    \/ writing_database
    \/ importing_parameters

Spec == Init /\ [][Next]_vars

\* the stages in the order __init__ calls them, and the end of the run
Stages ==
    <<"allocation", "conform", "basic_matching", "ecoinvent", "biosphere",
      "prune", "original_amounts", "writing", "parameters", "done">>

\* the place of a stage in the order the pipeline is described with:
\* decomposition, allocation resolution, technosphere matching, biosphere
\* matching, pruning, persistence; 0 for the other stages
DescribedRank(stage) ==
    CASE stage = "conform" -> 1
      [] stage = "allocation" -> 2
      [] stage = "ecoinvent" -> 3
      [] stage = "biosphere" -> 4
      [] stage = "prune" -> 5
      [] stage = "writing" -> 6
      [] OTHER -> 0

\* C14 as described: of two stages of the description that follow each
\* other in a run, the second is the next one of the description, the
\* decomposition coming before the allocation resolution.
C14_DecompositionFirst ==
    [][(DescribedRank(pc) > 0 /\ DescribedRank(pc') > 0 /\ pc' # pc)
           => DescribedRank(pc') = DescribedRank(pc) + 1]_vars

\* C14: the stages run strictly in the order allocation resolution,
\* decomposition, basic matching, technosphere matching, biosphere
\* matching, pruning, original amounts, persistence, parameters: every step
\* of a run leads from a stage to the next one of that order or ends the
\* run on an exception, each stage being one call that returns after it has
\* been over all processes: the decomposition starts with every textual
\* allocation resolved, and the database is written once, as the pruning
\* and define_original_amounts left it.
C14_StagesInOrder ==
    [][/\ pc' # pc =>
           \/ pc' = "aborted"
           \/ \E k \in 1..(Len(Stages) - 1) : pc = Stages[k] /\ pc' = Stages[k + 1]
       /\ pc' = "conform" => ScanTextualAllocations(data', 1) = <<>>
       /\ pc \in {"allocation", "conform", "basic_matching", "ecoinvent",
                  "biosphere", "prune", "original_amounts"} => written' = <<>>
       /\ pc' \in {"parameters", "done"} => written' = data']_vars

\* a run that went through every stage, and pruned and wrote something
C14_Witness ==
    /\ pc = "done"
    /\ allocation_with_parameters # <<>>
    /\ written = data
    /\ \E i \in DOMAIN data : Len(data[i].exchanges) > 1
    /\ \E i \in DOMAIN parsed : \E j \in DOMAIN parsed[i].exchanges :
           parsed[i].exchanges[j].name = Str_Packaging

\* name.split(', ')
CommaSegments(name) == Split(name, <<",", " ">>)

\* the name carries a country of self.countries as its last segment
Regionalized(name) ==
    /\ Len(CommaSegments(name)) > 1
    /\ CommaSegments(name)[Len(CommaSegments(name))] \in countries

\* the name without its last segment
Generalized(name) ==
    SubSeq(name, 1, Len(name) - Len(CommaSegments(name)[Len(CommaSegments(name))]) - 2)

\* C15: an unlinked biosphere exchange whose name ends with a country of
\* the loaded list is looked up under the name without that country: when
\* the reference flow list holds a flow of the generalized name in the
\* categories of the exchange, matching_to_biosphere links the exchange
\* to it.
C15_CountrySuffixStripped ==
    pc = "prune" =>
        \A p \in EveryPlace :
            LET exc == Found(p[1], p[2])
                flows == FlowsNamed(biosphere, Generalized(exc.name),
                                    TranslatedCategories(exc.categories))
            IN  (/\ exc.type = "biosphere"
                 /\ exc.input = NoLink
                 /\ Regionalized(exc.name)
                 /\ flows # <<>>)
                    => data[p[1]].exchanges[p[2]].input = <<biosphere_name, flows[1].code>>

\* an unlinked technosphere or production exchange whose name holds no
\* '|' and is not the name of a process of the project
Undelimited(i, j) ==
    /\ Found(i, j).input = NoLink
    /\ Found(i, j).type \in {"technosphere", "production"}
    /\ ~InList(Found(i, j).name, [k \in DOMAIN parsed |-> parsed[k].name])
    /\ ~InStr(<<"|">>, Found(i, j).name)

\* C16: a project holding an unlinked technosphere or production exchange
\* whose name lacks the '|' delimiter and is not the name of a process of
\* the project makes the run abort: matching_to_ecoinvent does not return
\* normally with the exchange skipped.
C16_UndelimitedNameAborts ==
    (pc # "ecoinvent" /\ \E p \in Places : Undelimited(p[1], p[2]))
        => pc = "aborted"

(***************************************************************************)
(* The name parser of matching_to_ecoinvent on its own (lines 200-206):    *)
(* one exchange whose name is written from a reference product, a          *)
(* location and a process name, followed by nothing, by a blank or by the  *)
(* system model SimaPro appends.                                           *)
(***************************************************************************)
\* 'Steel, low-alloyed'
Str_Steelcomma_lowdashalloyed ==
    <<"S", "t", "e", "e", "l", ",", " ", "l", "o", "w", "-", "a", "l", "l",
      "o", "y", "e", "d">>
\* 'Steel'
Str_Steel ==
    <<"S", "t", "e", "e", "l">>
\* ' | Cut-off, U'
Str__bar_Cutdashoffcomma_U ==
    <<" ", "|", " ", "C", "u", "t", "-", "o", "f", "f", ",", " ", "U">>
\* 'Steel {GLO}|market for'
Str_Steel_lbraceGLOrbracebarmarket_for ==
    <<"S", "t", "e", "e", "l", " ", "{", "G", "L", "O", "}", "|", "m", "a",
      "r", "k", "e", "t", " ", "f", "o", "r">>
\* 'Steel | market for'
Str_Steel_bar_market_for ==
    <<"S", "t", "e", "e", "l", " ", "|", " ", "m", "a", "r", "k", "e", "t",
      " ", "f", "o", "r">>
\* 'Steel, low-alloyed {RER}| steel production, converter, low-alloyed'
Str_Steelcomma_lowdashalloyed_lbraceRERrbracebar_steel_productioncomma_convertercomma_lowdashalloyed ==
    <<"S", "t", "e", "e", "l", ",", " ", "l", "o", "w", "-", "a", "l", "l",
      "o", "y", "e", "d", " ", "{", "R", "E", "R", "}", "|", " ", "s", "t",
      "e", "e", "l", " ", "p", "r", "o", "d", "u", "c", "t", "i", "o", "n",
      ",", " ", "c", "o", "n", "v", "e", "r", "t", "e", "r", ",", " ", "l",
      "o", "w", "-", "a", "l", "l", "o", "y", "e", "d">>

ParseProducts == {Str_Steelcomma_lowdashalloyed, Str_Steel, Str_Sulfidic_tailingcomma_offdashsite}

ParseLocations == {Str_RER, Str_GLO, Str_WECCcomma_US_only}

ParseNames == {Str_steel_productioncomma_convertercomma_lowdashalloyed, Str_market_for,
               Str_treatment_of}

ParseTails == {<<>>, <<" ">>, Str__bar_Cutdashoffcomma_U}

\* "<reference product> {<location>}| <process name>"
GrammarName(reference_product, location, name) ==
    reference_product \o <<" ", "{">> \o location \o <<"}", "|", " ">> \o name

\* lines 200-206 for the exchange at hand: the three locals of the parser
parse_name ==
    /\ pc = "parse"
    /\ LET n == data[1].exchanges[1].name
       IN  IF ParseOk(n)
           THEN /\ name_parts' = <<ReferenceProduct(n), ProcessName(n), Location(n)>>
                /\ pc' = "cascade"
                /\ err' = "none"
           ELSE /\ name_parts' = <<>>
                /\ pc' = "aborted"
                /\ err' = "IndexError"
    /\ UNCHANGED <<data, global_parameters, allocation_with_parameters,
                   project_activities, obsolete_processes, system_processes,
                   only_in_simapro, created_biosphere_flows, ecoinvent,
                   biosphere, next_code, warnings, parsed, written,
                   database_parameters, activity_parameters>>

\* names that hold the delimiter '|' and are not written in the grammar:
\* no blank after the delimiter, no location in braces
PipedNames == {Str_Steel_lbraceGLOrbracebarmarket_for, Str_Steel_bar_market_for}

\* the names the parser is called with: each holds the delimiter '|'
ParseInputs ==
    {GrammarName(reference_product, location, name) \o tail :
         reference_product \in ParseProducts, location \in ParseLocations,
         name \in ParseNames, tail \in ParseTails} \cup PipedNames

InitParse ==
    /\ \E n \in ParseInputs :
           data = <<[Process(TRUE, MatchNames[1], 1, FALSE, <<>>,
                        <<Exchange(n, 100, "technosphere", NoAllocation, "kg")>>)
                        EXCEPT !.code = 1]>>
    /\ global_parameters = <<>>
    /\ ecoinvent = <<>>
    /\ biosphere = <<>>
    /\ pc = "parse"
    /\ InitRest

NextParse == parse_name

SpecParse == InitParse /\ [][NextParse]_vars

\* no blank at either end
Trimmed(s) == s = <<>> \/ (s[1] # " " /\ s[Len(s)] # " ")

\* C17: the name "<reference product> {<location>}| <process name>", also
\* when a blank or SimaPro's system model follows it, is parsed into the
\* reference product, the process name and the location it was written
\* from, each without a blank at its ends, with the location
\* 'WECC, US only' read as 'WECC'.
C17_ParserYieldsComponents ==
    pc # "parse" =>
        \A reference_product \in ParseProducts, location \in ParseLocations,
           name \in ParseNames, tail \in ParseTails :
            parsed[1].exchanges[1].name
                    = GrammarName(reference_product, location, name) \o tail
                => /\ pc = "cascade"
                   /\ name_parts = <<reference_product, name,
                                     IF location = Str_WECCcomma_US_only
                                     THEN Str_WECC ELSE location>>
                   /\ \A k \in 1..3 : Trimmed(name_parts[k])

\* the name of the description has been parsed
C17_Witness ==
    /\ pc = "cascade"
    /\ data[1].exchanges[1].name =
           Str_Steelcomma_lowdashalloyed_lbraceRERrbracebar_steel_productioncomma_convertercomma_lowdashalloyed
    /\ name_parts = <<Str_Steelcomma_lowdashalloyed,
                      Str_steel_productioncomma_convertercomma_lowdashalloyed, Str_RER>>

\* the record of exchange j of process i that rules 1 to 3 append
RecordOf(i, j) == BucketRecord(Found(i, j), parsed[i])

\* the number of records of a bucket equal to r
Records(bucket, r) == Cardinality({k \in DOMAIN bucket : bucket[k] = r})

\* the number of exchanges of process i that carry the name and the amount
\* of exchange j and are taken into the cascade
Twins(i, j) ==
    Cardinality({k \in DOMAIN parsed[i].exchanges :
                     Parsed(i, k) /\ RecordOf(i, k) = RecordOf(i, j)})

\* the exchange got its link from the reference matcher
LinkedByMatcher(i, j) == data[i].exchanges[j].input # NoLink

\* the activity the exchange is linked to
LinkedActivity(i, j) ==
    ecoinvent[CHOOSE k \in DOMAIN ecoinvent :
                  ecoinvent[k].code = data[i].exchanges[j].input[2]]

\* C18: the cascade is first-match-wins in its declared order: an exchange
\* whose name is obsolete is recorded as obsolete only, one that is not
\* but is a system process as system process only, one that is neither but
\* is of the SimaPro-only kind as SimaPro-only only; each is recorded once
\* and gets no link. An exchange none of the three guards holds for is in
\* no bucket and is linked by the first rule that takes it: under
\* '<connector> <reference product>' for a connector word, to the first
\* activity the search returns whose name holds 'construction' for a
\* construction, even when the database holds an activity under the name a
\* later rule would look for.
C18_FirstRuleWins ==
    EcoinventRan =>
        \A p \in EveryPlace :
            LET i == p[1]
                j == p[2]
                o == Records(obsolete_processes, RecordOf(i, j))
                s == Records(system_processes, RecordOf(i, j))
                u == Records(only_in_simapro, RecordOf(i, j))
                done == pc = "biosphere"
                name == ProcessName(Found(i, j).name)
                reference_product == ReferenceProduct(Found(i, j).name)
            IN  Parsed(i, j) =>
                    /\ ObsoleteGuard(i, j) =>
                           /\ s = 0 /\ u = 0 /\ ~LinkedByMatcher(i, j)
                           /\ o <= Twins(i, j)
                           /\ done => o = Twins(i, j)
                    /\ (~ObsoleteGuard(i, j) /\ SystemGuard(i, j)) =>
                           /\ o = 0 /\ u = 0 /\ ~LinkedByMatcher(i, j)
                           /\ s <= Twins(i, j)
                           /\ done => s = Twins(i, j)
                    /\ (~ObsoleteGuard(i, j) /\ ~SystemGuard(i, j)
                            /\ OnlyInSimaproGuard(i, j)) =>
                           /\ o = 0 /\ s = 0 /\ ~LinkedByMatcher(i, j)
                           /\ u <= Twins(i, j)
                           /\ done => u = Twins(i, j)
                    /\ Searched(i, j) =>
                           /\ o = 0 /\ s = 0 /\ u = 0
                           /\ done => LinkedByMatcher(i, j)
                           /\ (LinkedByMatcher(i, j) /\ name \in {Str_market_for,
                                   Str_market_group_for, Str_treatment_of}) =>
                                  Lower(LinkedActivity(i, j).name)
                                      = Lower(name \o <<" ">> \o reference_product)
                           /\ (LinkedByMatcher(i, j) /\ name = Str_construction) =>
                                  LinkedActivity(i, j).name = Str_building_construction

\* the run returned with an obsolete exchange in the obsolete bucket alone,
\* although the database holds the activity rule 4 would link it to, and
\* with a system process that is of the SimaPro-only kind in the system
\* bucket alone
C18_Witness ==
    /\ pc = "biosphere"
    /\ \E k \in DOMAIN ecoinvent : ecoinvent[k].name = Str_market_for_old
    /\ \E p \in EveryPlace, q \in EveryPlace :
           /\ Parsed(p[1], p[2]) /\ ObsoleteGuard(p[1], p[2])
           /\ InList(RecordOf(p[1], p[2]), obsolete_processes)
           /\ ~LinkedByMatcher(p[1], p[2])
           /\ Parsed(q[1], q[2]) /\ SystemGuard(q[1], q[2])
           /\ OnlyInSimaproGuard(q[1], q[2])
           /\ InList(RecordOf(q[1], q[2]), system_processes)
           /\ ~InList(RecordOf(q[1], q[2]), only_in_simapro)

\* exchange j of process i is the only one of the project that gets to the
\* rules that search
SearchedAlone(i, j) ==
    /\ Searched(i, j)
    /\ \A q \in EveryPlace : Searched(q[1], q[2]) => q = <<i, j>>

\* C19: a step-5 rule falls back, when the filtered search returns nothing,
\* on the scan of the whole database on (name, reference product,
\* location): a 'construction' exchange for which that scan has a hit is
\* linked when matching_to_ecoinvent has run.
C19_ScanAfterSearch ==
    EcoinventRan =>
        \A p \in EveryPlace :
            LET n == Found(p[1], p[2]).name
            IN  (/\ SearchedAlone(p[1], p[2])
                 /\ ProcessName(n) = Str_construction
                 /\ ScanByName(ecoinvent, ReferenceProduct(n), Location(n),
                               ProcessName(n)) # <<>>)
                    => /\ pc = "biosphere"
                       /\ LinkedByMatcher(p[1], p[2])

\* what the cascade does with exchange j of process i against the
\* reference database at hand
Cascade(i, j) ==
    EcoinventCode(ecoinvent, ReferenceProduct(Found(i, j).name),
                  Location(Found(i, j).name), ProcessName(Found(i, j).name))

ProjectNames ==
    <<MatchNames[1], MatchNames[2],
      Str_Old_lbraceGLOrbracebar_market_for_bar_Cutdashoffcomma_U>>

\* exchanges on a process of the project, on the obsolete process, on a
\* market of the reference database, and a second product of the project
ProjectExchanges ==
    <<MatchExchanges[5], MatchExchanges[2], MatchExchanges[1],
      Exchange(MatchNames[2], 2, "production", NoAllocation, "kg")>>

InitProject ==
    /\ \E shapes \in Projects(Shapes(Len(ProjectExchanges), DOMAIN ProjectNames),
                              Len(MatchNames), MaxProjectExchanges) :
           data = [i \in DOMAIN MatchNames |->
                      [Process(TRUE, ProjectNames[shapes[i].variant], 1, FALSE, <<>>,
                           <<Exchange(ProjectNames[shapes[i].variant], 1, "production",
                                      NoAllocation, NoText)>>
                               \o [j \in DOMAIN shapes[i].exchanges |->
                                       ProjectExchanges[shapes[i].exchanges[j]]])
                          EXCEPT !.code = i]]
    /\ ecoinvent = EcoActivities(TRUE)
    /\ biosphere = Biosphere(TRUE)
    /\ global_parameters = <<>>
    /\ allocation_with_parameters = <<>>
    /\ project_activities = <<>>
    /\ obsolete_processes = <<>>
    /\ system_processes = <<>>
    /\ only_in_simapro = <<>>
    /\ created_biosphere_flows = <<>>
    /\ next_code = Len(MatchNames)
    /\ warnings = <<>>
    /\ written = <<>>
    /\ database_parameters = <<>>
    /\ activity_parameters = <<>>
    /\ name_parts = <<>>
    /\ err = "none"
    /\ pc = "ecoinvent"
    /\ parsed = data

NextProject == matching_to_ecoinvent

SpecProject == InitProject /\ [][NextProject]_vars

\* exchange j of process i is one lines 424-428 take: without a link, of
\* type technosphere or production, named after a process of the project
ProjectNamed(i, j) ==
    /\ Found(i, j).input = NoLink
    /\ Found(i, j).type \in {"technosphere", "production"}
    /\ \E k \in DOMAIN parsed : parsed[k].name = Found(i, j).name

\* the first process of the project under the name of exchange j of process i
FirstNamed(i, j) ==
    CHOOSE k \in DOMAIN parsed :
        /\ parsed[k].name = Found(i, j).name
        /\ \A l \in DOMAIN parsed : parsed[l].name = Found(i, j).name => k <= l

\* C21: an unlinked technosphere or production exchange named after a
\* process of the project is in no bucket, also when the name is that of
\* an obsolete process, and when matching_to_ecoinvent returns it is linked
\* to the project database under the code of the first process of that
\* name, with the code of its own process on the output side.
C21_ProjectNamedLinkedDirectly ==
    EcoinventRan =>
        \A p \in EveryPlace :
            ProjectNamed(p[1], p[2]) =>
                /\ InNoBucket(p[1], p[2])
                /\ pc = "biosphere" =>
                       /\ data[p[1]].exchanges[p[2]].input
                              = <<db_name, parsed[FirstNamed(p[1], p[2])].code>>
                       /\ data[p[1]].exchanges[p[2]].output
                              = <<ecoinvent_name, parsed[p[1]].code>>

\* two processes under one name, an obsolete one: the exchange of the
\* second on that name is linked to the first
C21_Witness ==
    /\ pc = "biosphere"
    /\ parsed[1].name = parsed[2].name
    /\ parsed[1].name \in obsolete
    /\ \E j \in DOMAIN parsed[2].exchanges :
           /\ ProjectNamed(2, j)
           /\ Found(2, j).type = "technosphere"
           /\ data[2].exchanges[j].input = <<db_name, parsed[1].code>>
           /\ data[2].exchanges[j].output = <<ecoinvent_name, parsed[2].code>>

\* C22: each process the decomposition creates holds one production
\* exchange, with the name, the amount and the type of the output it was
\* split for, and with its unit and its formula.
C22_ProductionExchangeKept ==
    Conformed =>
        \A i \in DOMAIN parsed : WasSplit(i) =>
            \A f \in DOMAIN Productions(parsed[i]) :
                \A k \in ProcessesNamed(Productions(parsed[i])[f].name) :
                    /\ Len(Productions(data[k])) = 1
                    /\ Productions(data[k])[1].name = Productions(parsed[i])[f].name
                    /\ Productions(data[k])[1].amount = Productions(parsed[i])[f].amount
                    /\ Productions(data[k])[1].type = Productions(parsed[i])[f].type
                    /\ Productions(data[k])[1].unit = Productions(parsed[i])[f].unit
                    /\ Productions(data[k])[1].formula = Productions(parsed[i])[f].formula

(***************************************************************************)
(* The decomposition on projects of three named processes, two of which    *)
(* may carry the same name, holding up to MaxRemovalExchanges exchanges in *)
(* all.                                                                    *)
(***************************************************************************)
InitRemoval ==
    /\ \E shapes \in Projects(Shapes(Len(ConformExchanges), DOMAIN ConformNames), 3,
                              MaxRemovalExchanges) :
           data = WithProductNames([i \in 1..3 |-> ConformProcess(shapes[i])])
    /\ global_parameters = GlobalParameters
    /\ ecoinvent = <<>>
    /\ biosphere = <<>>
    /\ pc = "allocation"
    /\ InitRest

NextRemoval ==
    \/ dealing_with_allocation_defined_by_parameters
    \/ conform_data_to_brightway_format

SpecRemoval == InitRemoval /\ [][NextRemoval]_vars

\* the processes of the delivered project that the decomposition does not
\* split, in list order
Unsplit == SelectSeq([i \in DOMAIN parsed |-> i], LAMBDA i : ~WasSplit(i))

\* the name a process that is not split carries after the decomposition
NameKept(p) == IF p.hasName THEN p.name ELSE Productions(p)[1].name

\* the exchanges of a process, its production exchanges aside, are those of q
SameInputs(p, q) ==
    /\ Len(Inputs(p)) = Len(Inputs(q))
    /\ \A j \in DOMAIN Inputs(p) :
           /\ Inputs(p)[j].name = Inputs(q)[j].name
           /\ Inputs(p)[j].amount = Inputs(q)[j].amount

\* C23: when the decomposition completes, the processes that were not
\* split are still in the active set, in their original relative order,
\* ahead of the processes created, one per output of a split process: the
\* removal by index deletes the split originals and nothing else.
C23_OnlyOriginalsRemoved ==
    Conformed =>
        /\ \A k \in DOMAIN Unsplit :
               /\ k <= Len(data)
               /\ data[k].name = NameKept(parsed[Unsplit[k]])
               /\ SameInputs(data[k], parsed[Unsplit[k]])
        /\ Len(data) = Len(Unsplit)
               + Cardinality({<<i, f>> \in (DOMAIN parsed) \X (1..(1 + MaxRemovalExchanges)) :
                                  WasSplit(i) /\ f <= Len(Productions(parsed[i]))})

\* two names that differ in the case of their letters at most
SameLetters(s, t) ==
    /\ Len(s) = Len(t)
    /\ \A k \in DOMAIN s : LowerChar(s[k]) = LowerChar(t[k])

\* the parameters of a scope that carry the name s, whatever the case
Carrying(params, s) == {k \in DOMAIN params : SameLetters(params[k].name, s)}

\* the activity-level parameters of process i, none without 'parameters'
ActivityScope(i) == IF parsed[i].hasParameters THEN parsed[i].parameters ELSE <<>>

\* C24: a textual allocation is looked up by name, whatever the case of
\* its letters, in the activity-level parameters of its process and, when
\* the name is not there, in the project-global parameters: the resolver
\* returns normally when every textual allocation is defined in a scope,
\* and each then holds the activity-level amount when both scopes define
\* it, the global amount when the global scope alone does.
C24_CaseInsensitiveActivityFirst ==
    (/\ pc # "allocation"
     /\ \A i \in DOMAIN parsed : \A j \in DOMAIN parsed[i].exchanges :
            HasTextualAllocation(parsed[i].exchanges[j]) =>
                \/ Carrying(ActivityScope(i), parsed[i].exchanges[j].allocation.str) # {}
                \/ Carrying(global_parameters, parsed[i].exchanges[j].allocation.str) # {})
        => /\ pc = "conform"
           /\ \A i \in DOMAIN parsed : \A j \in DOMAIN parsed[i].exchanges :
                  HasTextualAllocation(parsed[i].exchanges[j]) =>
                      LET s == parsed[i].exchanges[j].allocation.str
                      IN  IF Carrying(ActivityScope(i), s) # {}
                          THEN \E k \in Carrying(ActivityScope(i), s) :
                                   data[i].exchanges[j].allocation
                                       = NumAllocation(parsed[i].parameters[k].amount)
                          ELSE \E k \in Carrying(global_parameters, s) :
                                   data[i].exchanges[j].allocation
                                       = NumAllocation(global_parameters[k].amount)

\* 'Alloc_A', defined as alloc_a in both scopes, got the activity-level
\* amount, and in a process without parameters the global one
C24_Witness ==
    /\ pc = "conform"
    /\ Carrying(global_parameters, Name_Alloc_A) # {}
    /\ \E i \in DOMAIN parsed : \E j \in DOMAIN parsed[i].exchanges :
           /\ parsed[i].exchanges[j].allocation = StrAllocation(Name_Alloc_A)
           /\ IF parsed[i].hasParameters
              THEN data[i].exchanges[j].allocation = NumAllocation(60)
              ELSE data[i].exchanges[j].allocation = NumAllocation(70)
    /\ \E i \in DOMAIN parsed : parsed[i].hasParameters
           /\ \E j \in DOMAIN parsed[i].exchanges :
                  parsed[i].exchanges[j].allocation = StrAllocation(Name_Alloc_A)

\* a biosphere exchange that the direct lookup misses and that the rename
\* table has no entry for under the pair (compartment, name)
NoRenameForPair(i, j) ==
    LET name == WaterName(Found(i, j).name, Found(i, j).categories)
    IN  /\ Found(i, j).type = "biosphere"
        /\ Found(i, j).input = NoLink
        /\ FlowsNamed(biosphere, name,
                      TranslatedCategories(Found(i, j).categories)) = <<>>
        /\ \A k \in DOMAIN sp_bio_names :
               ~(sp_bio_names[k][2] = name
                 /\ sp_bio_names[k][1] = comps[Found(i, j).categories[1]])

\* C25: when the direct lookup misses and the rename table has no entry
\* for the name of the exchange under the compartment of the exchange, the
\* name being listed under another compartment included, no IndexError is
\* raised and the exchange is in the created-biosphere-flows bucket when
\* matching_to_biosphere returns.
C25_PairMissIsBucketed ==
    pc # "biosphere" =>
        \A p \in EveryPlace :
            NoRenameForPair(p[1], p[2]) =>
                /\ err # "IndexError"
                /\ pc = "prune" => InCreatedFlows(p[1], p[2])

\* the keys of a record of the created-biosphere-flows bucket that
\* carries the name of the flow, its category, the name of the process
\* it comes from and the amount
FlowRecordKeys == DOMAIN CreatedFlowRecord(<<>>, <<"", "">>, [name |-> <<>>], [amount |-> 0])

\* C26: every record of the created-biosphere-flows bucket carries the
\* four attributes flow name, category, origin process name and amount,
\* whichever path appended it, with or without a sub-category.
C26_FourAttributes ==
    \A k \in DOMAIN created_biosphere_flows :
        DOMAIN created_biosphere_flows[k] = FlowRecordKeys

\* C27: every exchange name in which the delimiter '|' occurs is parsed
\* into reference product, process name and location without raising.
C27_DelimiterCheckSuffices ==
    (pc # "parse" /\ InStr(<<"|">>, parsed[1].exchanges[1].name)) =>
        /\ err = "none"
        /\ pc = "cascade"
        /\ Len(name_parts) = 3

\* the number of exchanges of a list that have no 'input'
CountUnlinked(excs) == Len(SelectSeq(excs, LAMBDA exc : exc.input = NoLink))

\* C28: one pass over a list with u unlinked exchanges leaves at most
\* u \div 2 of them, exactly one of two adjacent ones, and a process that
\* holds fewer than 2^10 unlinked exchanges before pruning holds none
\* after the 10 passes.
C28_PassHalves ==
    \A i \in DOMAIN parsed :
        LET before == parsed[i].exchanges
            u == CountUnlinked(before)
        IN  /\ CountUnlinked(PruneExchanges(before)) <= u \div 2
            /\ (Len(before) = 2 /\ u = 2) => CountUnlinked(PruneExchanges(before)) = 1
            /\ (pc = "original_amounts" /\ u < 2 ^ Passes) =>
                   CountUnlinked(data[i].exchanges) = 0

\* 2^10 - 1 unlinked exchanges are gone, and two adjacent ones elsewhere
C28_Witness ==
    /\ pc = "original_amounts"
    /\ CountUnlinked(parsed[1].exchanges) = 2 ^ Passes - 1
    /\ data[1].exchanges = <<>>

\* the exchanges of a list that have an 'input', in the order of the list
LinkedExchanges(excs) == SelectSeq(excs, LAMBDA exc : exc.input # NoLink)

\* C29: removing_unlinked_exchanges removes no process and, in every
\* process, neither removes nor alters nor reorders an exchange that has
\* an input: the linked exchanges are the same list before and after one
\* pass and after the 10 passes, also when exchanges are equal as values.
C29_LinkedExchangesKept ==
    /\ \A i \in DOMAIN parsed :
           LinkedExchanges(PruneExchanges(parsed[i].exchanges))
               = LinkedExchanges(parsed[i].exchanges)
    /\ pc = "original_amounts" =>
           /\ Len(data) = Len(parsed)
           /\ \A i \in DOMAIN parsed :
                  /\ LinkedExchanges(data[i].exchanges)
                         = LinkedExchanges(parsed[i].exchanges)
                  /\ [data[i] EXCEPT !.exchanges = <<>>]
                         = [parsed[i] EXCEPT !.exchanges = <<>>]

\* two equal linked exchanges around unlinked ones that the pruner took
C29_Witness ==
    /\ pc = "original_amounts"
    /\ \E i \in DOMAIN parsed :
           /\ Len(parsed[i].exchanges) = 4
           /\ parsed[i].exchanges[1].input # NoLink
           /\ parsed[i].exchanges[2].input = NoLink
           /\ parsed[i].exchanges[3] = parsed[i].exchanges[2]
           /\ parsed[i].exchanges[4] = parsed[i].exchanges[1]
           /\ data[i].exchanges = <<parsed[i].exchanges[1], parsed[i].exchanges[4]>>

====
